---- MODULE Spec2Model ----
(***************************************************************************)
(* Model of the schema editor of the connection edit page                  *)
(* (frontend/src/components/Connection/ConnectionEditor.tsx), of the user  *)
(* administration table with its debounced text inputs                     *)
(* (components/admin/AdminSettings.tsx, components/Catalyst/TextInput.tsx) *)
(* and of the message input (components/Conversation/ExpandingInput.tsx).  *)
(*                                                                         *)
(* The held tree is editFields.options of ConnectionEditor; SchemaEditor   *)
(* receives it as the prop `options` and writes it back with setOptions.   *)
(* JavaScript values are modelled as follows:                              *)
(*   - undefined / a missing optional-chaining result is the empty tuple,  *)
(*     a present value x is the one-element tuple <<x>>;                   *)
(*   - arrays are sequences, addressed with the 0-based indices of the     *)
(*     source through At;                                                  *)
(*   - objects are functions from property names to values, so that        *)
(*     obj[name] = value can add a property (SetProp);                     *)
(*   - the text fields of a relationship entry hold Str(s) for a string s, *)
(*     because the relationship inputs can also store a change event       *)
(*     (Event) there.                                                      *)
(***************************************************************************)
EXTENDS Integers, Sequences, FiniteSets, TLC

VARIABLES
    editFields,                 \* ConnectionEditor form state: name, dsn, options
    unsavedChanges,             \* ConnectionEditor dirty flag
    loadingPossibleValuesMap,   \* SchemaEditor: key -> boolean, possible values
    loadingRelationshipsMap,    \* SchemaEditor: key -> boolean, relationships
    fetches,                    \* enrichment calls issued so far, by id
    nEdits,                     \* number of handler calls made by the user
    nRefresh,                   \* number of schema refreshes delivered
    connection,                 \* data of useGetConnection
    page,                       \* ConnectionEditor: route and save mutation
    users,                      \* AdminSettings: the edited users list
    adminUnsavedChanges,        \* AdminSettings: unsavedChanges
    textInputValue,             \* TextInput: inputValue, by input of the table
    debounced,                  \* TextInput: pending call of debouncedChange
    bulkUpdates,                \* AdminSettings: bulkUpdateUsers calls, by id
    nKeys,                      \* number of keystrokes in the table
    nAdminOps,                  \* number of select and button events in the table
    inputValue,                 \* ExpandingInput: inputValue
    showSuggestions,            \* ExpandingInput: showSuggestions
    filteredSuggestions,        \* ExpandingInput: filteredSuggestions
    disabled,                   \* ExpandingInput: prop disabled
    submitted,                  \* ExpandingInput: arguments of the onSubmit calls
    nChanges,                   \* ExpandingInput: number of input and prop changes
    lastCall                    \* the handler call made by the last step

editorVars == <<editFields, unsavedChanges, loadingPossibleValuesMap,
                loadingRelationshipsMap, fetches, nEdits, nRefresh, connection,
                page>>

adminVars == <<users, adminUnsavedChanges, textInputValue, debounced, bulkUpdates,
               nKeys, nAdminOps>>

messageVars == <<inputValue, showSuggestions, filteredSuggestions, disabled,
                 submitted, nChanges>>

vars == <<editorVars, adminVars, messageVars, lastCall>>

(***************************************************************************)
(* Bounds                                                                  *)
(***************************************************************************)
MaxEdits == 1
MaxFetches == 2
MaxRefresh == 1
MaxEvents == 2
MaxSaves == 1
MaxRequests == 1
MaxPureOps == 2
MaxIdx == 1
MaxKeys == 2
MaxAdminOps == 2
MaxBulk == 1
MaxAdminEvents == 3
MaxChanges == 2
MaxSubmits == 1

(***************************************************************************)
(* JavaScript values                                                       *)
(***************************************************************************)
Undefined == <<>>

Some(x) == <<x>>

Str(s) == [str |-> s]

Event(s) == [target |-> [value |-> s]]

\* arr?.[i] with a 0-based index
At(arr, i) == IF i \in 0..(Len(arr) - 1) THEN Some(arr[i + 1]) ELSE Undefined

\* obj[name] = value
SetProp(obj, name, value) ==
    [k \in (DOMAIN obj) \cup {name} |-> IF k = name THEN value ELSE obj[k]]

\* { [name]: value }: records of the history variables keep a value under the
\* name of the property it is for, so that equal names mean comparable values
Assigned(name, value) == [k \in {name} |-> value]

NoValue == [none |-> TRUE]

(***************************************************************************)
(* The tree                                                                *)
(***************************************************************************)
Rel(en, s, t, c) ==
    [enabled |-> en, schema_name |-> Str(s), table |-> Str(t), column |-> Str(c)]

Col(n, ty, pv, rel) ==
    [name |-> n, description |-> "", type |-> ty, enabled |-> TRUE,
     primary_key |-> FALSE, possible_values |-> pv, relationship |-> rel]

\* a column whose optional relationship property is missing
ColNoRel(n, ty) ==
    [name |-> n, description |-> "", type |-> ty, enabled |-> TRUE,
     primary_key |-> FALSE, possible_values |-> <<>>]

Tab(n, en, cols) == [name |-> n, enabled |-> en, description |-> "", columns |-> cols]

Sch(n, en, tabs) == [name |-> n, enabled |-> en, tables |-> tabs]

Opt(schs) == [schemas |-> schs]

\* a change event is stored in some relationship entry of the tree
RelHasEvent(rel) ==
    \E f \in {"schema_name", "table", "column"} \cap DOMAIN rel :
        "target" \in DOMAIN rel[f]

ColHasEvent(col) ==
    "relationship" \in DOMAIN col
    /\ \E k \in 1..Len(col.relationship) : RelHasEvent(col.relationship[k])

HasEvent(tree) ==
    \E i \in 1..Len(tree.schemas) :
        \E j \in 1..Len(tree.schemas[i].tables) :
            \E k \in 1..Len(tree.schemas[i].tables[j].columns) :
                ColHasEvent(tree.schemas[i].tables[j].columns[k])

(***************************************************************************)
(* Handlers of SchemaEditor.  Each handler is applied to the object        *)
(* `options` of the render it was created in and returns                   *)
(*   threw      - the handler raised before reaching setOptions            *)
(*   options    - the value of the object `options` after the call         *)
(*   newOptions - the object handed to setOptions                          *)
(* Objects live in a heap local to the call: the caller's tree is heap[1]. *)
(***************************************************************************)

\* structuredClone replaced by a plain reference copy
structuredCloneAlias(heap, ref) == [threw |-> FALSE, heap |-> heap, ref |-> ref]

\* structuredClone raises DataCloneError on a tree that holds a change event
\* (an event carries DOM nodes and functions); otherwise it allocates a new
\* object with an equal value.
structuredClone(heap, ref) ==
    IF HasEvent(heap[ref])
    THEN [threw |-> TRUE, heap |-> heap, ref |-> ref]
    ELSE [threw |-> FALSE, heap |-> Append(heap, heap[ref]), ref |-> Len(heap) + 1]

\* the handler without its relation_index branch: always writes the column
columnFieldChangeHandlerNoRelation(options, value, name, column_index, table_index, schema_index, relation_index) ==
    LET cl == structuredClone(<<options>>, 1)
        newOptions == cl.ref
        tree == cl.heap[newOptions]
        schema == At(tree.schemas, schema_index)
        table == IF schema = Undefined THEN Undefined
                 ELSE At(schema[1].tables, table_index)
        column == IF table = Undefined THEN Undefined
                  ELSE At(table[1].columns, column_index)
        write(col) ==
            [cl.heap EXCEPT ![newOptions].schemas[schema_index + 1]
                                .tables[table_index + 1]
                                .columns[column_index + 1] = col]
        result(threw, heap) ==
            [threw |-> threw, options |-> heap[1], newOptions |-> heap[newOptions]]
    IN  IF cl.threw THEN [threw |-> TRUE, options |-> options, newOptions |-> options]
        ELSE IF column = Undefined THEN result(FALSE, cl.heap)
        ELSE result(FALSE, write(SetProp(column[1], name, value)))

\* the handler without optional chaining and without the `if (column)` guard:
\* a path that does not resolve raises a TypeError
columnFieldChangeHandlerNoGuard(options, value, name, column_index, table_index, schema_index, relation_index) ==
    LET cl == structuredClone(<<options>>, 1)
        newOptions == cl.ref
        tree == cl.heap[newOptions]
        schema == At(tree.schemas, schema_index)
        table == IF schema = Undefined THEN Undefined
                 ELSE At(schema[1].tables, table_index)
        column == IF table = Undefined THEN Undefined
                  ELSE At(table[1].columns, column_index)
        write(col) ==
            [cl.heap EXCEPT ![newOptions].schemas[schema_index + 1]
                                .tables[table_index + 1]
                                .columns[column_index + 1] = col]
        result(threw, heap) ==
            [threw |-> threw, options |-> heap[1], newOptions |-> heap[newOptions]]
    IN  IF cl.threw THEN [threw |-> TRUE, options |-> options, newOptions |-> options]
        ELSE IF column = Undefined THEN result(TRUE, cl.heap)
        ELSE IF relation_index >= 0
        THEN IF "relationship" \in DOMAIN column[1]
             THEN LET relation == At(column[1].relationship, relation_index)
                  IN  IF relation = Undefined
                      THEN result(TRUE, cl.heap)
                      ELSE result(FALSE,
                             write([column[1] EXCEPT
                                      !.relationship[relation_index + 1] =
                                          SetProp(relation[1], name, value)]))
             ELSE result(FALSE, cl.heap)
        ELSE result(FALSE, write(SetProp(column[1], name, value)))

columnFieldChangeHandler(options, value, name, column_index, table_index, schema_index, relation_index) ==
    LET cl == structuredClone(<<options>>, 1)
        newOptions == cl.ref
        tree == cl.heap[newOptions]
        schema == At(tree.schemas, schema_index)
        table == IF schema = Undefined THEN Undefined
                 ELSE At(schema[1].tables, table_index)
        column == IF table = Undefined THEN Undefined
                  ELSE At(table[1].columns, column_index)
        write(col) ==
            [cl.heap EXCEPT ![newOptions].schemas[schema_index + 1]
                                .tables[table_index + 1]
                                .columns[column_index + 1] = col]
        result(threw, heap) ==
            [threw |-> threw, options |-> heap[1], newOptions |-> heap[newOptions]]
    IN  IF cl.threw THEN [threw |-> TRUE, options |-> options, newOptions |-> options]
        ELSE IF column = Undefined THEN result(FALSE, cl.heap)
        ELSE IF relation_index >= 0
        THEN IF "relationship" \in DOMAIN column[1]
             THEN LET relation == At(column[1].relationship, relation_index)
                  IN  IF relation = Undefined
                      THEN result(TRUE, cl.heap)   \* TypeError: undefined[name] = value
                      ELSE result(FALSE,
                             write([column[1] EXCEPT
                                      !.relationship[relation_index + 1] =
                                          SetProp(relation[1], name, value)]))
             ELSE result(FALSE, cl.heap)
        ELSE result(FALSE, write(SetProp(column[1], name, value)))

\* the handler without optional chaining and without the `if (table)` guard
tableDescriptionFieldChangeHandlerNoGuard(options, value, table_index, schema_index) ==
    LET cl == structuredClone(<<options>>, 1)
        newOptions == cl.ref
        tree == cl.heap[newOptions]
        schema == At(tree.schemas, schema_index)
        table == IF schema = Undefined THEN Undefined
                 ELSE At(schema[1].tables, table_index)
        heap == IF table = Undefined THEN cl.heap
                ELSE [cl.heap EXCEPT ![newOptions].schemas[schema_index + 1]
                                         .tables[table_index + 1] =
                                             SetProp(table[1], "description", value)]
    IN  IF cl.threw THEN [threw |-> TRUE, options |-> options, newOptions |-> options]
        ELSE [threw |-> table = Undefined, options |-> heap[1],
              newOptions |-> heap[newOptions]]

tableDescriptionFieldChangeHandler(options, value, table_index, schema_index) ==
    LET cl == structuredClone(<<options>>, 1)
        newOptions == cl.ref
        tree == cl.heap[newOptions]
        schema == At(tree.schemas, schema_index)
        table == IF schema = Undefined THEN Undefined
                 ELSE At(schema[1].tables, table_index)
        heap == IF table = Undefined THEN cl.heap
                ELSE [cl.heap EXCEPT ![newOptions].schemas[schema_index + 1]
                                         .tables[table_index + 1] =
                                             SetProp(table[1], "description", value)]
    IN  IF cl.threw THEN [threw |-> TRUE, options |-> options, newOptions |-> options]
        ELSE [threw |-> FALSE, options |-> heap[1], newOptions |-> heap[newOptions]]

\* the schema toggle without the cascade to its tables
setSchemaEnabledNoCascade(options, schema_index, checked) ==
    LET newSchema(prev_schema, prev_idx) ==
            IF prev_idx = schema_index
            THEN SetProp(prev_schema, "enabled", checked)
            ELSE prev_schema
    IN  [threw |-> FALSE, options |-> options,
         newOptions |-> [schemas |-> [k \in 1..Len(options.schemas) |->
                                         newSchema(options.schemas[k], k - 1)]]]

\* the schema toggle without the test on the schema index
setSchemaEnabledEverySchema(options, schema_index, checked) ==
    LET newTable(table, inner_table_idx) == SetProp(table, "enabled", checked)
        newSchema(prev_schema, prev_idx) ==
            SetProp(SetProp(prev_schema, "enabled", checked),
                    "tables",
                    [k \in 1..Len(prev_schema.tables) |->
                        newTable(prev_schema.tables[k], k - 1)])
    IN  [threw |-> FALSE, options |-> options,
         newOptions |-> [schemas |-> [k \in 1..Len(options.schemas) |->
                                         newSchema(options.schemas[k], k - 1)]]]

\* schema Switch onChange: a new object is built with map (the function
\* constructors below, with the 0-based index k - 1) and spread (SetProp)
setSchemaEnabled(options, schema_index, checked) ==
    LET newTable(table, inner_table_idx) == SetProp(table, "enabled", checked)
        newSchema(prev_schema, prev_idx) ==
            IF prev_idx = schema_index
            THEN SetProp(SetProp(prev_schema, "enabled", checked),
                         "tables",
                         [k \in 1..Len(prev_schema.tables) |->
                             newTable(prev_schema.tables[k], k - 1)])
            ELSE prev_schema
    IN  [threw |-> FALSE, options |-> options,
         newOptions |-> [schemas |-> [k \in 1..Len(options.schemas) |->
                                         newSchema(options.schemas[k], k - 1)]]]

\* the table toggle without the test on the table index
setTableEnabledEveryTable(options, schema_index, table_index, checked) ==
    LET newTable(table, inner_table_idx) == SetProp(table, "enabled", checked)
        newSchema(prev_schema, prev_idx) ==
            IF prev_idx = schema_index
            THEN SetProp(prev_schema, "tables",
                         [k \in 1..Len(prev_schema.tables) |->
                             newTable(prev_schema.tables[k], k - 1)])
            ELSE prev_schema
    IN  [threw |-> FALSE, options |-> options,
         newOptions |-> [schemas |-> [k \in 1..Len(options.schemas) |->
                                         newSchema(options.schemas[k], k - 1)]]]

\* table Switch onChange
setTableEnabled(options, schema_index, table_index, checked) ==
    LET newTable(table, inner_table_idx) ==
            IF inner_table_idx = table_index
            THEN SetProp(table, "enabled", checked)
            ELSE table
        newSchema(prev_schema, prev_idx) ==
            IF prev_idx = schema_index
            THEN SetProp(prev_schema, "tables",
                         [k \in 1..Len(prev_schema.tables) |->
                             newTable(prev_schema.tables[k], k - 1)])
            ELSE prev_schema
    IN  [threw |-> FALSE, options |-> options,
         newOptions |-> [schemas |-> [k \in 1..Len(options.schemas) |->
                                         newSchema(options.schemas[k], k - 1)]]]

(***************************************************************************)
(* Pending maps.  The key is the template string                           *)
(* `${schema_index}-${table_index}-${column_index}`, kept as its sequence  *)
(* of characters.                                                          *)
(***************************************************************************)
DigitChar == <<"0", "1", "2", "3", "4", "5", "6", "7", "8", "9">>

RECURSIVE Digits(_)
Digits(n) ==
    IF n < 10 THEN <<DigitChar[n + 1]>>
    ELSE Digits(n \div 10) \o <<DigitChar[(n % 10) + 1]>>

Key(schema_index, table_index, column_index) ==
    Digits(schema_index) \o <<"-">> \o Digits(table_index) \o <<"-">>
        \o Digits(column_index)

\* ({ ...map, [key]: true }) on the map of the first render
setLoadingTrueStale(prev, key) == SetProp([k \in {} |-> FALSE], key, TRUE)

\* prev => ({ ...prev, [key]: true })
setLoadingTrue(prev, key) == SetProp(prev, key, TRUE)

\* the flag is not cleared
setLoadingFalseSkipped(prev, key) == prev

\* prev => ({ ...prev, [key]: false }) in the finally block
setLoadingFalse(prev, key) == SetProp(prev, key, FALSE)

\* a button that is never disabled
IsLoadingNever(map, key) == FALSE

\* map[key] read as a condition (a missing key is undefined, which is falsy)
IsLoading(map, key) == key \in DOMAIN map /\ map[key]

EmptyMap == [k \in {} |-> FALSE]

(***************************************************************************)
(* Values supplied by the environment                                      *)
(***************************************************************************)
LoadedTree ==
    Opt(<<Sch("public", TRUE,
              <<Tab("users", TRUE,
                    <<Col("id", "int", <<>>, <<Rel(TRUE, "public", "orders", "user_id")>>),
                      Col("status", "text", <<>>, <<>>)>>)>>),
          Sch("audit", FALSE, <<Tab("log", TRUE, <<>>)>>)>>)

\* the schema after the status column was dropped at the data source
RefreshedTree ==
    Opt(<<Sch("public", TRUE,
              <<Tab("users", TRUE, <<Col("id", "int", <<>>, <<>>)>>)>>),
          Sch("audit", FALSE, <<Tab("log", TRUE, <<>>)>>)>>)

Connections == {[name |-> "db", dsn |-> "pg://db", options |-> LoadedTree]}

RefreshData == {[options |-> RefreshedTree]}

TextValues == {"t1"}

\* the column and relationship inputs exercised by the user events
ColumnSwitchFields == {"enabled"}

ColumnTextFields == {"description"}

RelationTextFields == {"table"}

\* responses of api.getPossibleValues / api.getRelationships:
\* rejected, resolved without data, resolved with data that is no array,
\* resolved with an array
Rejected == [status |-> "reject"]

NoData == [status |-> "resolve", hasData |-> FALSE]

NotArray ==
    [status |-> "resolve", hasData |-> TRUE, isArray |-> FALSE,
     data |-> [detail |-> "no samples"]]

Ok(data) == [status |-> "resolve", hasData |-> TRUE, isArray |-> TRUE, data |-> data]

Responses(kind) ==
    {Rejected, NoData, NotArray}
    \cup (IF kind = "possible_values"
          THEN {Ok(<<"active", "inactive">>)}
          ELSE {Ok(<<Rel(TRUE, "public", "orders", "user_id")>>),
                Ok(<<Rel(TRUE, "public", "teams", "id")>>)})

\* the test without Array.isArray
WellFormedNoArrayTest(result) ==
    result.status = "resolve" /\ result.hasData

\* try { await ... } with a catch clause that swallows the rejection
awaitThrowsCaught(result) == FALSE

\* try { await ... } finally { ... }: there is no catch clause, so a rejected
\* provider call rejects the promise of the async function
awaitThrows(result) == result.status = "reject"

\* result?.data && Array.isArray(result?.data)
WellFormed(result) ==
    result.status = "resolve" /\ result.hasData /\ result.isArray

Kinds == {"possible_values", "relationship"}

(***************************************************************************)
(* State after construction: the form is empty, no tree is held yet and    *)
(* SchemaEditor is not mounted.                                            *)
(***************************************************************************)
NoCall == [op |-> "none"]

\* the editor route is shown and no save has been requested
OpenPage ==
    [route |-> "editor", isUpdatingConnection |-> FALSE, nSaves |-> 0,
     showCancelAlert |-> FALSE, showDeleteAlert |-> FALSE,
     conversationsData |-> Undefined, isDeleting |-> FALSE, nRequests |-> 0]

\* AdminSettings is not rendered
AdminClosed ==
    /\ users = <<>>
    /\ adminUnsavedChanges = FALSE
    /\ textInputValue = EmptyMap
    /\ debounced = EmptyMap
    /\ bulkUpdates = <<>>
    /\ nKeys = 0
    /\ nAdminOps = 0

\* ExpandingInput is not rendered
MessageClosed ==
    /\ inputValue = <<>>
    /\ showSuggestions = FALSE
    /\ filteredSuggestions = <<>>
    /\ disabled = FALSE
    /\ submitted = <<>>
    /\ nChanges = 0

\* ConnectionEditor after its first render
EditorInit ==
    /\ editFields = [name |-> "", dsn |-> "", options |-> Undefined]
    /\ unsavedChanges = FALSE
    /\ loadingPossibleValuesMap = EmptyMap
    /\ loadingRelationshipsMap = EmptyMap
    /\ fetches = <<>>
    /\ nEdits = 0
    /\ nRefresh = 0
    /\ connection = Undefined
    /\ page = OpenPage

Init ==
    /\ EditorInit
    /\ AdminClosed
    /\ MessageClosed
    /\ lastCall = NoCall

\* user edits, fetches, refreshes, saves and back or delete requests so far,
\* and the budget for them
Events == nEdits + Len(fetches) + nRefresh + page.nSaves + page.nRequests

Budget == Events < MaxEvents

\* the editor route is shown: ConnectionEditor is mounted
Open == page.route = "editor"

\* SchemaEditor is rendered only when editFields.options is set
Mounted == Open /\ editFields.options # Undefined

Held == editFields.options[1]

\* a || b on strings
OrElse(a, b) == IF a = "" THEN b ELSE a

\* a setOptions that marks the session clean
setOptionsClearsFlag(newOptions) ==
    /\ editFields' = [editFields EXCEPT !.options = Some(newOptions)]
    /\ unsavedChanges' = FALSE

\* a setOptions that stores the tree only
setOptionsTreeOnly(newOptions) ==
    /\ editFields' = [editFields EXCEPT !.options = Some(newOptions)]
    /\ UNCHANGED unsavedChanges

\* setOptions prop passed to SchemaEditor
setOptions(newOptions) ==
    /\ editFields' = [editFields EXCEPT !.options = Some(newOptions)]
    /\ unsavedChanges' = TRUE

\* a handler of the current render ran with result res
Finish(res) ==
    IF res.threw THEN UNCHANGED <<editFields, unsavedChanges>>
    ELSE setOptions(res.newOptions)

\* the target field of a resolved fetch may since have been rewritten by
\* design: its record is no longer `clean`
Dirty(f) ==
    [f EXCEPT !.clean = FALSE, !.value = NoValue, !.peers = {}, !.edited = FALSE]

\* the held tree was replaced: no resolved fetch is clean any more
UncleanAll ==
    [i \in DOMAIN fetches |->
        IF fetches[i].status = "done" THEN Dirty(fetches[i]) ELSE fetches[i]]

\* a user edit was applied to the held tree: the outstanding fetches have seen
\* an interim edit, and the resolved fetches in ids are no longer clean
Edited(ids) ==
    [i \in DOMAIN fetches |->
        IF fetches[i].status = "pending" THEN [fetches[i] EXCEPT !.edited = TRUE]
        ELSE IF i \in ids THEN Dirty(fetches[i]) ELSE fetches[i]]

SameColumn(f, s, t, c) ==
    f.schema_index = s /\ f.table_index = t /\ f.column_index = c

(***************************************************************************)
(* Calls of the handlers of the current render                             *)
(***************************************************************************)
CallColumnField(value, name, c, t, s, r) ==
    LET res == columnFieldChangeHandler(Held, value, name, c, t, s, r)
    IN  /\ Finish(res)
        /\ lastCall' = [op |-> "setColumnField", held |-> Held, input |-> Held,
                        after |-> res.options, out |-> res.newOptions,
                        threw |-> res.threw,
                        schema_index |-> s, table_index |-> t,
                        column_index |-> c, relation_index |-> r,
                        name |-> name, value |-> Assigned(name, value)]
        /\ fetches' = IF res.threw THEN fetches
                      ELSE Edited({i \in DOMAIN fetches :
                                     /\ SameColumn(fetches[i], s, t, c)
                                     /\ \/ fetches[i].kind = name
                                        \/ r >= 0 /\ fetches[i].kind = "relationship"})
        /\ nEdits' = nEdits + 1
        /\ UNCHANGED <<adminVars, messageVars, loadingPossibleValuesMap, loadingRelationshipsMap,
                       nRefresh, connection, page>>

CallTableDescription(value, t, s) ==
    LET res == tableDescriptionFieldChangeHandler(Held, value, t, s)
    IN  /\ Finish(res)
        /\ lastCall' = [op |-> "setTableDescription", held |-> Held, input |-> Held,
                        after |-> res.options, out |-> res.newOptions,
                        threw |-> res.threw,
                        schema_index |-> s, table_index |-> t, text |-> value]
        /\ nEdits' = nEdits + 1
        /\ fetches' = IF res.threw THEN fetches ELSE Edited({})
        /\ UNCHANGED <<adminVars, messageVars, loadingPossibleValuesMap, loadingRelationshipsMap,
                       nRefresh, connection, page>>

CallSchemaEnabled(s, checked) ==
    LET res == setSchemaEnabled(Held, s, checked)
    IN  /\ Finish(res)
        /\ lastCall' = [op |-> "setSchemaEnabled", held |-> Held, input |-> Held,
                        after |-> res.options, out |-> res.newOptions,
                        threw |-> res.threw,
                        schema_index |-> s, value |-> checked]
        /\ nEdits' = nEdits + 1
        /\ fetches' = IF res.threw THEN fetches ELSE Edited({})
        /\ UNCHANGED <<adminVars, messageVars, loadingPossibleValuesMap, loadingRelationshipsMap,
                       nRefresh, connection, page>>

CallTableEnabled(s, t, checked) ==
    LET res == setTableEnabled(Held, s, t, checked)
    IN  /\ Finish(res)
        /\ lastCall' = [op |-> "setTableEnabled", held |-> Held, input |-> Held,
                        after |-> res.options, out |-> res.newOptions,
                        threw |-> res.threw,
                        schema_index |-> s, table_index |-> t, value |-> checked]
        /\ nEdits' = nEdits + 1
        /\ fetches' = IF res.threw THEN fetches ELSE Edited({})
        /\ UNCHANGED <<adminVars, messageVars, loadingPossibleValuesMap, loadingRelationshipsMap,
                       nRefresh, connection, page>>

(***************************************************************************)
(* What the current render shows                                           *)
(***************************************************************************)
\* schemas without tables render nothing
SchemaRows ==
    {s \in 0..(Len(Held.schemas) - 1) : Len(Held.schemas[s + 1].tables) # 0}

TableRows ==
    UNION {{<<s, t>> : t \in 0..(Len(Held.schemas[s + 1].tables) - 1)} :
              s \in 0..(Len(Held.schemas) - 1)}

ColumnRows ==
    UNION {{<<st[1], st[2], c>> :
               c \in 0..(Len(Held.schemas[st[1] + 1].tables[st[2] + 1].columns) - 1)} :
              st \in TableRows}

SchemaOf(s) == Held.schemas[s + 1]

TableOf(s, t) == Held.schemas[s + 1].tables[t + 1]

ColumnOf(s, t, c) == Held.schemas[s + 1].tables[t + 1].columns[c + 1]

\* column?.relationship?.map(...): the rows of the relationship table
RelationRows(s, t, c) ==
    IF "relationship" \in DOMAIN ColumnOf(s, t, c)
    THEN 0..(Len(ColumnOf(s, t, c).relationship) - 1)
    ELSE {}

\* a && b on booleans: the first operand when it is false, else the second
And(a, b) == IF a THEN b ELSE a

\* the table Switch showing the stored flag of the table alone
TableSwitchCheckedStored(schema, table) == table.enabled

\* checked={table.enabled && schema.enabled}
TableSwitchChecked(schema, table) == And(table.enabled, schema.enabled)

\* the table name is white when schema.enabled && table.enabled, else dimmed
TableNameHighlighted(schema, table) == And(schema.enabled, table.enabled)

(***************************************************************************)
(* User events on the rendered tree.  A Switch reports the negation of its *)
(* checked prop; a text input reports its change event.                    *)
(***************************************************************************)
ColumnSwitch(s, t, c, name) ==
    /\ Mounted /\ nEdits < MaxEdits /\ Budget
    /\ <<s, t, c>> \in ColumnRows
    /\ CallColumnField(~ColumnOf(s, t, c)[name], name, c, t, s, -1)

ColumnText(s, t, c, name, text) ==
    /\ Mounted /\ nEdits < MaxEdits /\ Budget
    /\ <<s, t, c>> \in ColumnRows
    /\ CallColumnField(Event(text).target.value, name, c, t, s, -1)

RelationSwitch(s, t, c, r) ==
    /\ Mounted /\ nEdits < MaxEdits /\ Budget
    /\ <<s, t, c>> \in ColumnRows
    /\ r \in RelationRows(s, t, c)
    /\ CallColumnField(~ColumnOf(s, t, c).relationship[r + 1].enabled,
                       "enabled", c, t, s, r)

RelationText(s, t, c, r, name, text) ==
    /\ Mounted /\ nEdits < MaxEdits /\ Budget
    /\ <<s, t, c>> \in ColumnRows
    /\ r \in RelationRows(s, t, c)
    /\ CallColumnField(Event(text), name, c, t, s, r)

\* the description input is rendered only for tables with columns
TableDescriptionText(s, t, text) ==
    /\ Mounted /\ nEdits < MaxEdits /\ Budget
    /\ <<s, t>> \in TableRows
    /\ Len(TableOf(s, t).columns) > 0
    /\ CallTableDescription(Event(text).target.value, t, s)

SchemaSwitch(s) ==
    /\ Mounted /\ nEdits < MaxEdits /\ Budget
    /\ s \in SchemaRows
    /\ CallSchemaEnabled(s, ~SchemaOf(s).enabled)

TableSwitch(s, t) ==
    /\ Mounted /\ nEdits < MaxEdits /\ Budget
    /\ <<s, t>> \in TableRows
    /\ CallTableEnabled(s, t, ~TableSwitchChecked(SchemaOf(s), TableOf(s, t)))

(***************************************************************************)
(* Enrichment: updatePossibleValues / updateRelationships.  The part       *)
(* before the await is IssueFetch; the part after it is ResolveFetch,      *)
(* which runs in the closure of the render that issued the call and so     *)
(* uses the `options` of that render.                                      *)
(***************************************************************************)
Pending(i) == fetches[i].status = "pending"

IssueFetch(kind, s, t, c) ==
    LET id == Len(fetches) + 1
        key == Key(s, t, c)
        rec == [kind |-> kind, schema_index |-> s, table_index |-> t,
                column_index |-> c, options |-> Some(Held), status |-> "pending",
                peers |-> {i \in DOMAIN fetches : Pending(i)},
                value |-> NoValue, wrote |-> FALSE, clean |-> FALSE,
                edited |-> FALSE]
    IN  /\ Mounted /\ Len(fetches) < MaxFetches /\ Budget
        /\ <<s, t, c>> \in ColumnRows
        \* the possible-values button is disabled while its key is loading;
        \* the relationship button has disabled={false}
        /\ kind = "possible_values" => ~IsLoading(loadingPossibleValuesMap, key)
        /\ IF kind = "possible_values"
           THEN /\ loadingPossibleValuesMap' = setLoadingTrue(loadingPossibleValuesMap, key)
                /\ UNCHANGED loadingRelationshipsMap
           ELSE /\ loadingRelationshipsMap' = setLoadingTrue(loadingRelationshipsMap, key)
                /\ UNCHANGED loadingPossibleValuesMap
        /\ fetches' = Append([i \in DOMAIN fetches |->
                                 IF Pending(i)
                                 THEN [fetches[i] EXCEPT !.peers = @ \cup {id}]
                                 ELSE fetches[i]], rec)
        /\ lastCall' = [op |-> "issue", id |-> id, kind |-> kind, key |-> key]
        /\ UNCHANGED <<adminVars, messageVars, editFields, unsavedChanges, nEdits, nRefresh, connection,
                       page>>

ResolveFetch(id, result) ==
    LET f == fetches[id]
        key == Key(f.schema_index, f.table_index, f.column_index)
        called == WellFormed(result)
        res == columnFieldChangeHandler(f.options[1], result.data, f.kind,
                                        f.column_index, f.table_index,
                                        f.schema_index, -1)
        wrote == IF called THEN ~res.threw ELSE FALSE
    IN  /\ id \in DOMAIN fetches
        /\ Pending(id)
        /\ result \in Responses(f.kind)
        /\ IF wrote THEN setOptions(res.newOptions)
           ELSE UNCHANGED <<editFields, unsavedChanges>>
        \* finally
        /\ IF f.kind = "possible_values"
           THEN /\ loadingPossibleValuesMap' = setLoadingFalse(loadingPossibleValuesMap, key)
                /\ UNCHANGED loadingRelationshipsMap
           ELSE /\ loadingRelationshipsMap' = setLoadingFalse(loadingRelationshipsMap, key)
                /\ UNCHANGED loadingPossibleValuesMap
        /\ fetches' = [i \in DOMAIN fetches |->
                         IF i = id
                         THEN IF wrote
                              THEN [f EXCEPT !.status = "done", !.options = Undefined,
                                             !.value = Assigned(f.kind, result.data),
                                             !.wrote = TRUE, !.clean = TRUE]
                              ELSE Dirty([f EXCEPT !.status = "done",
                                                   !.options = Undefined])
                         ELSE IF wrote /\ fetches[i].status = "done"
                                 /\ fetches[i].kind = f.kind
                                 /\ SameColumn(fetches[i], f.schema_index,
                                               f.table_index, f.column_index)
                              THEN Dirty(fetches[i])
                              ELSE fetches[i]]
        /\ lastCall' = [op |-> "resolve", id |-> id, kind |-> f.kind, key |-> key,
                        held |-> Held, input |-> f.options[1],
                        result |-> Assigned(f.kind, result),
                        schema_index |-> f.schema_index,
                        table_index |-> f.table_index,
                        column_index |-> f.column_index,
                        wrote |-> wrote, edited |-> f.edited,
                        \* the promise of the async function is rejected
                        threw |-> IF called THEN res.threw
                                  ELSE awaitThrows(result),
                        \* the fetches that were outstanding together with
                        \* this one: all of them, and those of its kind and path
                        alone |-> f.peers = {},
                        rivals |-> {i \in f.peers :
                                      /\ fetches[i].kind = f.kind
                                      /\ SameColumn(fetches[i], f.schema_index,
                                                    f.table_index, f.column_index)}]
        /\ UNCHANGED <<adminVars, messageVars, nEdits, nRefresh, connection, page>>

(***************************************************************************)
(* Tree replacement by the environment                                     *)
(***************************************************************************)
\* useEffect on [connection]: runs when the query delivers other data
Load(conn) ==
    /\ Open
    /\ connection # Some(conn)
    /\ connection' = Some(conn)
    /\ editFields' = [name |-> OrElse(conn.name, editFields.name),
                      dsn |-> OrElse(conn.dsn, editFields.dsn),
                      options |-> Some(conn.options)]
    /\ fetches' = UncleanAll
    /\ lastCall' = [op |-> "load"]
    /\ UNCHANGED <<adminVars, messageVars, unsavedChanges, loadingPossibleValuesMap,
                   loadingRelationshipsMap, nEdits, nRefresh, page>>

\* callback of useRefreshConnectionSchema
RefreshSchema(data) ==
    /\ Open
    /\ nRefresh < MaxRefresh /\ Budget
    /\ editFields' = [editFields EXCEPT !.options = Some(data.options)]
    /\ fetches' = UncleanAll
    /\ nRefresh' = nRefresh + 1
    /\ lastCall' = [op |-> "refresh"]
    /\ UNCHANGED <<adminVars, messageVars, unsavedChanges, loadingPossibleValuesMap,
                   loadingRelationshipsMap, nEdits, connection, page>>

(***************************************************************************)
(* The form of ConnectionEditor: name and connection string inputs, Save   *)
(***************************************************************************)
\* onChange of the name input
NameChange(text) ==
    /\ Open /\ nEdits < MaxEdits /\ Budget
    /\ editFields' = [editFields EXCEPT !.name = Event(text).target.value]
    /\ unsavedChanges' = TRUE
    /\ nEdits' = nEdits + 1
    /\ lastCall' = [op |-> "setName"]
    /\ UNCHANGED <<adminVars, messageVars, loadingPossibleValuesMap, loadingRelationshipsMap, fetches,
                   nRefresh, connection, page>>

\* onChange of the connection string input
DsnChange(text) ==
    /\ Open /\ nEdits < MaxEdits /\ Budget
    /\ editFields' = [editFields EXCEPT !.dsn = Event(text).target.value]
    /\ unsavedChanges' = TRUE
    /\ nEdits' = nEdits + 1
    /\ lastCall' = [op |-> "setDsn"]
    /\ UNCHANGED <<adminVars, messageVars, loadingPossibleValuesMap, loadingRelationshipsMap, fetches,
                   nRefresh, connection, page>>

\* navigate({ to: "/" })
navigate(pg) == [pg EXCEPT !.route = "home"]

\* a payload that carries the name only
PayloadNameOnly == [name |-> editFields.name]

\* payload of updateConnection: dsn is sent only when it differs from the
\* loaded one (connection?.dsn is undefined before the connection is loaded)
Payload ==
    LET base == [name |-> editFields.name, options |-> editFields.options]
        loaded == IF connection = Undefined THEN Undefined
                  ELSE Some(connection[1].dsn)
    IN  IF Some(editFields.dsn) # loaded
        THEN SetProp(base, "dsn", editFields.dsn)
        ELSE base

\* handleSubmit; the Save button is disabled while the mutation is pending
Submit ==
    /\ Open /\ ~page.isUpdatingConnection
    /\ page.nSaves < MaxSaves /\ Budget
    /\ IF ~unsavedChanges
       THEN /\ page' = navigate([page EXCEPT !.nSaves = @ + 1])
            /\ lastCall' = [op |-> "leave"]
       ELSE /\ page' = [page EXCEPT !.isUpdatingConnection = TRUE, !.nSaves = @ + 1]
            /\ lastCall' = [op |-> "save", payload |-> Payload]
    /\ UNCHANGED <<adminVars, messageVars, editFields, unsavedChanges, loadingPossibleValuesMap,
                   loadingRelationshipsMap, fetches, nEdits, nRefresh, connection>>

\* a failed save with an onError callback that leaves the page
updateConnectionOnErrorLeaves(pg) == navigate(pg)

\* useUpdateConnection is given no onError callback
updateConnectionOnError(pg) == pg

\* onSuccess() { navigate({ to: "/" }) }
updateConnectionOnSuccess(pg) == navigate(pg)

\* the save request failed
UpdateFailed ==
    /\ page.isUpdatingConnection
    /\ page' = updateConnectionOnError([page EXCEPT !.isUpdatingConnection = FALSE])
    /\ lastCall' = [op |-> "saveFailed", editFields |-> editFields,
                    unsavedChanges |-> unsavedChanges, route |-> page.route]
    /\ UNCHANGED <<adminVars, messageVars, editFields, unsavedChanges, loadingPossibleValuesMap,
                   loadingRelationshipsMap, fetches, nEdits, nRefresh, connection>>

\* the save request succeeded
UpdateSucceeded ==
    /\ page.isUpdatingConnection
    /\ page' = updateConnectionOnSuccess([page EXCEPT !.isUpdatingConnection = FALSE])
    /\ lastCall' = [op |-> "saved"]
    /\ UNCHANGED <<adminVars, messageVars, editFields, unsavedChanges, loadingPossibleValuesMap,
                   loadingRelationshipsMap, fetches, nEdits, nRefresh, connection>>

(***************************************************************************)
(* Leaving the page: back requests and the discard prompt                  *)
(***************************************************************************)
\* history.back(): goes to the previous entry of the session history, and
\* does nothing when the page is the first entry
historyBack(pg, hasPrevious) ==
    IF hasPrevious THEN [pg EXCEPT !.route = "previous"] ELSE pg

\* handleBack: close icon, Cancel button, Escape key
\* a back request that leaves without asking
BackDirect ==
    /\ Open
    /\ page.nRequests < MaxRequests /\ Budget
    /\ page' = navigate([page EXCEPT !.nRequests = @ + 1])
    /\ lastCall' = [op |-> "back", unsavedChanges |-> unsavedChanges]
    /\ UNCHANGED <<adminVars, messageVars, editFields, unsavedChanges, loadingPossibleValuesMap,
                   loadingRelationshipsMap, fetches, nEdits, nRefresh, connection>>

Back ==
    /\ Open
    /\ page.nRequests < MaxRequests /\ Budget
    /\ page' = IF unsavedChanges
               THEN [page EXCEPT !.showCancelAlert = TRUE, !.nRequests = @ + 1]
               ELSE navigate([page EXCEPT !.nRequests = @ + 1])
    /\ lastCall' = [op |-> "back", unsavedChanges |-> unsavedChanges]
    /\ UNCHANGED <<adminVars, messageVars, editFields, unsavedChanges, loadingPossibleValuesMap,
                   loadingRelationshipsMap, fetches, nEdits, nRefresh, connection>>

\* onSuccess of the discard prompt
DiscardConfirm(hasPrevious) ==
    /\ Open
    /\ page.showCancelAlert
    /\ page' = historyBack([page EXCEPT !.showCancelAlert = FALSE], hasPrevious)
    /\ lastCall' = [op |-> "discard"]
    /\ UNCHANGED <<adminVars, messageVars, editFields, unsavedChanges, loadingPossibleValuesMap,
                   loadingRelationshipsMap, fetches, nEdits, nRefresh, connection>>

\* onCancel of the discard prompt
DiscardCancel ==
    /\ Open
    /\ page.showCancelAlert
    /\ page' = [page EXCEPT !.showCancelAlert = FALSE]
    /\ lastCall' = [op |-> "keep", editFields |-> editFields,
                    unsavedChanges |-> unsavedChanges]
    /\ UNCHANGED <<adminVars, messageVars, editFields, unsavedChanges, loadingPossibleValuesMap,
                   loadingRelationshipsMap, fetches, nEdits, nRefresh, connection>>

(***************************************************************************)
(* Deleting the connection                                                 *)
(***************************************************************************)
\* route parameter $connectionId
connectionId == "c1"

\* the conversations held by the server: one of this connection, one of
\* another connection
ServerConversations ==
    <<[id |-> "v1", connection_id |-> "c1"], [id |-> "v2", connection_id |-> "c2"]>>

OfConnection(conversation) == conversation.connection_id = connectionId

\* conversationsData?.filter(...) ?? []
relatedConversationsOf(conversationsData) ==
    IF conversationsData = Undefined THEN <<>>
    ELSE SelectSeq(conversationsData[1], OfConnection)

relatedConversations == relatedConversationsOf(page.conversationsData)

\* useGetConversations delivers its data
LoadConversations ==
    /\ Open
    /\ page.conversationsData = Undefined
    /\ page' = [page EXCEPT !.conversationsData = Some(ServerConversations)]
    /\ lastCall' = [op |-> "conversations"]
    /\ UNCHANGED <<adminVars, messageVars, editFields, unsavedChanges, loadingPossibleValuesMap,
                   loadingRelationshipsMap, fetches, nEdits, nRefresh, connection>>

\* handleDelete
handleDelete(pg) ==
    IF connectionId = "" THEN pg ELSE [pg EXCEPT !.isDeleting = TRUE]

\* onClick of the Delete button
DeleteClick(pg) ==
    IF Len(relatedConversations) > 0
    THEN [pg EXCEPT !.showDeleteAlert = TRUE]
    ELSE handleDelete(pg)

PressDelete ==
    /\ Open
    /\ page.nRequests < MaxRequests /\ Budget
    /\ page' = DeleteClick([page EXCEPT !.nRequests = @ + 1])
    /\ lastCall' = [op |-> "pressDelete",
                    sent |-> page'.isDeleting /\ ~page'.showDeleteAlert,
                    confirmed |-> FALSE]
    /\ UNCHANGED <<adminVars, messageVars, editFields, unsavedChanges, loadingPossibleValuesMap,
                   loadingRelationshipsMap, fetches, nEdits, nRefresh, connection>>

\* onSuccess of the delete prompt
DeleteConfirm ==
    /\ Open
    /\ page.showDeleteAlert
    /\ page' = handleDelete([page EXCEPT !.showDeleteAlert = FALSE])
    /\ lastCall' = [op |-> "confirmDelete", sent |-> page'.isDeleting,
                    confirmed |-> TRUE]
    /\ UNCHANGED <<adminVars, messageVars, editFields, unsavedChanges, loadingPossibleValuesMap,
                   loadingRelationshipsMap, fetches, nEdits, nRefresh, connection>>

\* onCancel of the delete prompt
DeleteCancel ==
    /\ Open
    /\ page.showDeleteAlert
    /\ page' = [page EXCEPT !.showDeleteAlert = FALSE]
    /\ lastCall' = [op |-> "cancelDelete"]
    /\ UNCHANGED <<adminVars, messageVars, editFields, unsavedChanges, loadingPossibleValuesMap,
                   loadingRelationshipsMap, fetches, nEdits, nRefresh, connection>>

\* useDeleteConnection: onSuccess() { navigate({ to: "/" }) }
DeleteSucceeded ==
    /\ page.isDeleting
    /\ page' = navigate([page EXCEPT !.isDeleting = FALSE])
    /\ lastCall' = [op |-> "deleted"]
    /\ UNCHANGED <<adminVars, messageVars, editFields, unsavedChanges, loadingPossibleValuesMap,
                   loadingRelationshipsMap, fetches, nEdits, nRefresh, connection>>

DeleteFailed ==
    /\ page.isDeleting
    /\ page' = [page EXCEPT !.isDeleting = FALSE]
    /\ lastCall' = [op |-> "deleteFailed"]
    /\ UNCHANGED <<adminVars, messageVars, editFields, unsavedChanges, loadingPossibleValuesMap,
                   loadingRelationshipsMap, fetches, nEdits, nRefresh, connection>>

(***************************************************************************)
(* The editor                                                              *)
(***************************************************************************)
Idx == 0..MaxIdx

UserColumnSwitch ==
    \E s \in Idx, t \in Idx, c \in Idx, name \in ColumnSwitchFields :
        ColumnSwitch(s, t, c, name)

UserColumnText ==
    \E s \in Idx, t \in Idx, c \in Idx, name \in ColumnTextFields,
       text \in TextValues :
        ColumnText(s, t, c, name, text)

UserRelationSwitch ==
    \E s \in Idx, t \in Idx, c \in Idx, r \in Idx : RelationSwitch(s, t, c, r)

UserRelationText ==
    \E s \in Idx, t \in Idx, c \in Idx, r \in Idx,
       name \in RelationTextFields, text \in TextValues :
        RelationText(s, t, c, r, name, text)

UserTableDescription ==
    \E s \in Idx, t \in Idx, text \in TextValues : TableDescriptionText(s, t, text)

UserSchemaSwitch == \E s \in Idx : SchemaSwitch(s)

UserTableSwitch == \E s \in Idx, t \in Idx : TableSwitch(s, t)

Issue == \E kind \in Kinds, s \in Idx, t \in Idx, c \in Idx : IssueFetch(kind, s, t, c)

Resolve(id) == \E result \in Responses(fetches[id].kind) : ResolveFetch(id, result)

ResolveAny == \E id \in 1..MaxFetches : id \in DOMAIN fetches /\ Resolve(id)

LoadConnection == \E conn \in Connections : Load(conn)

UserNameChange == \E text \in TextValues : NameChange(text)

UserDsnChange == \E text \in TextValues : DsnChange(text)

ConfirmDiscard == \E hasPrevious \in BOOLEAN : DiscardConfirm(hasPrevious)

Refresh == \E data \in RefreshData : RefreshSchema(data)

Next ==
    \/ UserColumnSwitch
    \/ UserColumnText
    \/ UserRelationSwitch
    \/ UserRelationText
    \/ UserTableDescription
    \/ UserSchemaSwitch
    \/ UserTableSwitch
    \/ Issue
    \/ ResolveAny
    \/ LoadConnection
    \/ Refresh
    \/ UserNameChange
    \/ UserDsnChange
    \/ Submit
    \/ UpdateFailed
    \/ UpdateSucceeded
    \/ Back
    \/ ConfirmDiscard
    \/ DiscardCancel
    \/ LoadConversations
    \/ PressDelete
    \/ DeleteConfirm
    \/ DeleteCancel
    \/ DeleteSucceeded
    \/ DeleteFailed

Spec == Init /\ [][Next]_vars

\* every provider call eventually completes
FairSpec ==
    Spec /\ \A id \in 1..MaxFetches : WF_vars(id \in DOMAIN fetches /\ Resolve(id))

(***************************************************************************)
(* The mutation operations as functions of their arguments: the tree is    *)
(* drawn from PureTrees and the operations are applied with every path of  *)
(* Idx (also paths that do not resolve) and every value of the sets below. *)
(***************************************************************************)
TreeA ==
    Opt(<<Sch("public", FALSE,
              <<Tab("users", TRUE,
                    <<Col("id", "int", <<>>,
                          <<Rel(TRUE, "public", "orders", "user_id"),
                            Rel(FALSE, "audit", "log", "user_id")>>),
                      Col("status", "text", <<"active">>, <<>>)>>),
                Tab("orders", FALSE, <<ColNoRel("user_id", "int")>>)>>),
          Sch("audit", TRUE, <<Tab("log", TRUE, <<>>)>>)>>)

\* no schema at all
TreeB == Opt(<<>>)

\* a schema without tables
TreeC == Opt(<<Sch("empty", TRUE, <<>>)>>)

PureTrees == {TreeA, TreeB, TreeC}

\* <<field_name, value>>; the last two names are not fields of a column
PureFieldValues ==
    {<<"description", "t1">>,
     <<"enabled", TRUE>>,
     <<"enabled", FALSE>>,
     <<"possible_values", <<"active", "inactive">>>>,
     <<"relationship", <<Rel(TRUE, "public", "orders", "user_id")>>>>,
     <<"table", Str("t1")>>,
     <<"note", "t1">>}

PureInit ==
    /\ \E T \in PureTrees : editFields = [name |-> "", dsn |-> "", options |-> Some(T)]
    /\ unsavedChanges = FALSE
    /\ loadingPossibleValuesMap = EmptyMap
    /\ loadingRelationshipsMap = EmptyMap
    /\ fetches = <<>>
    /\ nEdits = 0
    /\ nRefresh = 0
    /\ connection = Undefined
    /\ page = OpenPage
    /\ AdminClosed
    /\ MessageClosed
    /\ lastCall = NoCall

PureSetColumnField ==
    \E s \in Idx, t \in Idx, c \in Idx, r \in (-1)..MaxIdx, fv \in PureFieldValues :
        /\ nEdits < MaxPureOps
        /\ CallColumnField(fv[2], fv[1], c, t, s, r)

PureSetTableDescription ==
    \E s \in Idx, t \in Idx, text \in TextValues :
        /\ nEdits < MaxPureOps
        /\ CallTableDescription(text, t, s)

PureSetSchemaEnabled ==
    \E s \in Idx, checked \in BOOLEAN :
        /\ nEdits < MaxPureOps
        /\ CallSchemaEnabled(s, checked)

PureSetTableEnabled ==
    \E s \in Idx, t \in Idx, checked \in BOOLEAN :
        /\ nEdits < MaxPureOps
        /\ CallTableEnabled(s, t, checked)

PureNext ==
    \/ PureSetColumnField
    \/ PureSetTableDescription
    \/ PureSetSchemaEnabled
    \/ PureSetTableEnabled

PureSpec == PureInit /\ [][PureNext]_vars

(***************************************************************************)
(* Vocabulary of the properties                                            *)
(***************************************************************************)
MutationOps ==
    {"setColumnField", "setTableDescription", "setSchemaEnabled", "setTableEnabled"}

\* the (schema, table, column) part of a path addresses a column of tree
ColumnResolves(tree, s, t, c) ==
    /\ s \in 0..(Len(tree.schemas) - 1)
    /\ t \in 0..(Len(tree.schemas[s + 1].tables) - 1)
    /\ c \in 0..(Len(tree.schemas[s + 1].tables[t + 1].columns) - 1)

ColumnIn(tree, s, t, c) == tree.schemas[s + 1].tables[t + 1].columns[c + 1]

\* relation_index addresses an entry of the column's relationship sequence
RelationResolves(tree, s, t, c, r) ==
    /\ ColumnResolves(tree, s, t, c)
    /\ "relationship" \in DOMAIN ColumnIn(tree, s, t, c)
    /\ r \in 0..(Len(ColumnIn(tree, s, t, c).relationship) - 1)

PathResolves(tree, s, t, c, r) ==
    IF r >= 0 THEN RelationResolves(tree, s, t, c, r)
    ELSE ColumnResolves(tree, s, t, c)

\* objects a and b agree on every property but f
SameButProp(a, b, f) ==
    /\ (DOMAIN a) \cup {f} = (DOMAIN b) \cup {f}
    /\ \A g \in (DOMAIN a) \ {f} : a[g] = b[g]

\* relationship sequences that agree on every entry but r, and on every
\* property of entry r but f
SameButRelationProp(a, b, r, f) ==
    /\ Len(a) = Len(b)
    /\ \A m \in 1..Len(a) :
          IF m = r + 1 THEN SameButProp(a[m], b[m], f) ELSE a[m] = b[m]

\* columns that agree on everything but the addressed property
SameButTarget(a, b, r, f) ==
    IF r >= 0
    THEN /\ SameButProp(a, b, "relationship")
         /\ DOMAIN a = DOMAIN b
         /\ SameButRelationProp(a.relationship, b.relationship, r, f)
    ELSE SameButProp(a, b, f)

\* trees that agree on everything but property f of the node at (s, t, c, r)
SameButField(A, B, s, t, c, r, f) ==
    /\ DOMAIN A = DOMAIN B
    /\ Len(A.schemas) = Len(B.schemas)
    /\ \A i \in 1..Len(A.schemas) :
          /\ SameButProp(A.schemas[i], B.schemas[i], "tables")
          /\ DOMAIN A.schemas[i] = DOMAIN B.schemas[i]
          /\ Len(A.schemas[i].tables) = Len(B.schemas[i].tables)
          /\ \A j \in 1..Len(A.schemas[i].tables) :
                LET ta == A.schemas[i].tables[j]
                    tb == B.schemas[i].tables[j]
                IN  /\ SameButProp(ta, tb, "columns")
                    /\ DOMAIN ta = DOMAIN tb
                    /\ Len(ta.columns) = Len(tb.columns)
                    /\ \A k \in 1..Len(ta.columns) :
                          IF i = s + 1 /\ j = t + 1 /\ k = c + 1
                          THEN SameButTarget(ta.columns[k], tb.columns[k], r, f)
                          ELSE ta.columns[k] = tb.columns[k]

(***************************************************************************)
(* C6-C10: the mutation operations, checked under PureSpec                 *)
(***************************************************************************)

\* C6: setColumnField with a path that resolves in T does not raise and
\* returns a tree that differs from T at most in field f of the node the path
\* addresses (the column, or the relationship entry when relation_index >= 0);
\* every other schema, table, column and relationship field is as in T.
C6_SetColumnFieldFrame ==
    (lastCall.op = "setColumnField"
     /\ PathResolves(lastCall.input, lastCall.schema_index, lastCall.table_index,
                     lastCall.column_index, lastCall.relation_index))
    => /\ ~lastCall.threw
       /\ SameButField(lastCall.input, lastCall.out,
                       lastCall.schema_index, lastCall.table_index,
                       lastCall.column_index, lastCall.relation_index,
                       lastCall.name)

\* a relationship entry, with sibling entries and sibling columns, was edited
C6_Witness ==
    /\ lastCall.op = "setColumnField"
    /\ lastCall.relation_index = 1
    /\ RelationResolves(lastCall.input, lastCall.schema_index, lastCall.table_index,
                        lastCall.column_index, lastCall.relation_index)
    /\ lastCall.out # lastCall.input

\* C7: no mutation operation changes the tree it was given: after the call
\* the input object still has the value it had before the call.
C7_InputNotMutated ==
    lastCall.op \in MutationOps => lastCall.after = lastCall.input

\* the second operation of a sequence produced a tree different from its input
C7_Witness ==
    /\ lastCall.op = "setColumnField"
    /\ nEdits = 2
    /\ ~lastCall.threw
    /\ lastCall.out # lastCall.input
    /\ lastCall.after = lastCall.input

\* C8: setColumnField with a schema, table or column index that does not
\* resolve raises no error and returns a tree equal to its input.
C8_OutOfRangeIsNoOp ==
    (lastCall.op = "setColumnField"
     /\ ~ColumnResolves(lastCall.input, lastCall.schema_index,
                        lastCall.table_index, lastCall.column_index))
    => /\ ~lastCall.threw
       /\ lastCall.out = lastCall.input

\* the column index is out of range in a table that has columns
C8_Witness ==
    /\ lastCall.op = "setColumnField"
    /\ lastCall.input = TreeA
    /\ lastCall.schema_index = 0 /\ lastCall.table_index = 1
    /\ lastCall.column_index = 1
    /\ ~lastCall.threw
    /\ lastCall.out = lastCall.input

\* C9 (as claimed): setColumnField with relation_index >= 0 that does not
\* resolve in the column's relationship sequence does not raise and returns
\* a tree equal to its input.
C9_UnresolvedRelationIsNoOp ==
    (lastCall.op = "setColumnField"
     /\ lastCall.relation_index >= 0
     /\ ColumnResolves(lastCall.input, lastCall.schema_index,
                       lastCall.table_index, lastCall.column_index)
     /\ ~RelationResolves(lastCall.input, lastCall.schema_index,
                          lastCall.table_index, lastCall.column_index,
                          lastCall.relation_index))
    => /\ ~lastCall.threw
       /\ lastCall.out = lastCall.input

\* C10: setSchemaEnabled(T, i, e) with schema i present yields a tree in which
\* schema i and every table under it have enabled = e, whatever the tables'
\* enabled values were in T.
C10_SchemaCascade ==
    (lastCall.op = "setSchemaEnabled"
     /\ lastCall.schema_index \in 0..(Len(lastCall.input.schemas) - 1))
    => LET schema == lastCall.out.schemas[lastCall.schema_index + 1]
       IN  /\ ~lastCall.threw
           /\ schema.enabled = lastCall.value
           /\ Len(schema.tables)
                = Len(lastCall.input.schemas[lastCall.schema_index + 1].tables)
           /\ \A j \in 1..Len(schema.tables) : schema.tables[j].enabled = lastCall.value

\* the schema had tables with both enabled values before the call
C10_Witness ==
    /\ lastCall.op = "setSchemaEnabled"
    /\ lastCall.schema_index \in 0..(Len(lastCall.input.schemas) - 1)
    /\ LET tables == lastCall.input.schemas[lastCall.schema_index + 1].tables
       IN  /\ \E j \in 1..Len(tables) : tables[j].enabled
           /\ \E j \in 1..Len(tables) : ~tables[j].enabled

(***************************************************************************)
(* C1-C5: enrichment, checked under Spec and FairSpec                      *)
(***************************************************************************)
MapOf(kind) ==
    IF kind = "possible_values" THEN loadingPossibleValuesMap
    ELSE loadingRelationshipsMap

KeyOf(f) == Key(f.schema_index, f.table_index, f.column_index)

\* the held tree stores the value that the resolved fetch f brought
Stored(f) ==
    /\ ColumnResolves(Held, f.schema_index, f.table_index, f.column_index)
    /\ f.kind \in DOMAIN ColumnIn(Held, f.schema_index, f.table_index, f.column_index)
    /\ ColumnIn(Held, f.schema_index, f.table_index, f.column_index)[f.kind]
          = f.value[f.kind]

\* fetches a and b were outstanding at the same time, both have written, and
\* nothing has rewritten the field of either by design since
BothWritten(a, b) ==
    /\ a # b
    /\ fetches[a].status = "done" /\ fetches[b].status = "done"
    /\ fetches[a].clean /\ fetches[b].clean
    /\ b \in fetches[a].peers
    /\ (fetches[a].kind # fetches[b].kind \/ KeyOf(fetches[a]) # KeyOf(fetches[b]))

\* C1 (as claimed): two fetches outstanding at the same time on different
\* column paths, or of different kinds on the same path: after both have
\* resolved with well-formed data, each targeted column field of the held tree
\* holds its own fetched value.
C1_ConcurrentFetchesBothStored ==
    \A a \in DOMAIN fetches, b \in DOMAIN fetches :
        BothWritten(a, b) => Stored(fetches[a]) /\ Stored(fetches[b])

\* the tree with property name of the column at (s, t, c) set to value
WithColumnField(tree, s, t, c, name, value) ==
    [tree EXCEPT !.schemas[s + 1].tables[t + 1].columns[c + 1] =
                     SetProp(@, name, value)]

\* C2 (as claimed): a user edit is applied to the held tree while a fetch is
\* outstanding and the fetch then resolves with well-formed data: the fetched
\* value is applied to the then-current tree, so the held tree after the
\* resolution is the tree held just before it (with the interim edit) with
\* the fetched value stored.
C2_FetchAppliedToCurrentTree ==
    (lastCall.op = "resolve"
     /\ lastCall.edited
     /\ WellFormed(lastCall.result[lastCall.kind])
     /\ ~HasEvent(lastCall.held)
     /\ ColumnResolves(lastCall.held, lastCall.schema_index, lastCall.table_index,
                       lastCall.column_index))
    => Held = WithColumnField(lastCall.held, lastCall.schema_index,
                              lastCall.table_index, lastCall.column_index,
                              lastCall.kind, lastCall.result[lastCall.kind].data)

\* C3 (as claimed): a response that arrives when its path no longer resolves
\* in the held tree is ignored: the held tree is the tree held just before the
\* resolution and the response raises no error.
C3_StaleResponseIgnored ==
    (lastCall.op = "resolve"
     /\ lastCall.result[lastCall.kind].status = "resolve"
     /\ ~ColumnResolves(lastCall.held, lastCall.schema_index, lastCall.table_index,
                        lastCall.column_index))
    => /\ Held = lastCall.held
       /\ ~lastCall.threw

\* C4: issuing a fetch sets the pending flag of its path in the map of its
\* kind while the provider call is outstanding, and the flag is false after
\* the call has resolved, whatever its outcome.
C4_PendingSetThenCleared ==
    /\ lastCall.op = "issue"
          => /\ Pending(lastCall.id)
             /\ lastCall.key \in DOMAIN MapOf(lastCall.kind)
             /\ MapOf(lastCall.kind)[lastCall.key] = TRUE
    /\ lastCall.op = "resolve"
          => /\ ~Pending(lastCall.id)
             /\ lastCall.key \in DOMAIN MapOf(lastCall.kind)
             /\ MapOf(lastCall.kind)[lastCall.key] = FALSE

\* a call was rejected by the provider and its flag is cleared
C4_Witness ==
    /\ lastCall.op = "resolve"
    /\ lastCall.result[lastCall.kind] = Rejected
    /\ lastCall.threw
    /\ ~IsLoading(MapOf(lastCall.kind), lastCall.key)

\* no flag is set without an outstanding fetch of its kind and path
NoOrphanFlag ==
    \A kind \in Kinds :
        \A key \in DOMAIN MapOf(kind) :
            MapOf(kind)[key]
                => \E i \in DOMAIN fetches :
                      Pending(i) /\ fetches[i].kind = kind /\ KeyOf(fetches[i]) = key

Outstanding(id) == id \in DOMAIN fetches /\ Pending(id)

Cleared(id) ==
    /\ id \in DOMAIN fetches
    /\ ~IsLoading(MapOf(fetches[id].kind), KeyOf(fetches[id]))

\* C5: when every provider call completes, the pending flag of the path of
\* each fetch is eventually cleared, whatever the outcome; and in no reachable
\* state is a flag set while no fetch of that kind and path is outstanding.
C5_PendingEventuallyCleared ==
    /\ []NoOrphanFlag
    /\ \A id \in 1..MaxFetches : Outstanding(id) ~> Cleared(id)

\* a call that returned malformed data has resolved and its flag is cleared
C5_Witness ==
    /\ lastCall.op = "resolve"
    /\ lastCall.result[lastCall.kind] = NotArray
    /\ Cleared(lastCall.id)
    /\ \A i \in DOMAIN fetches : ~Pending(i)

(***************************************************************************)
(* C11-C13: table and schema toggles                                       *)
(***************************************************************************)
\* the (schema, table) part of a path addresses a table of tree
TableResolves(tree, s, t) ==
    /\ s \in 0..(Len(tree.schemas) - 1)
    /\ t \in 0..(Len(tree.schemas[s + 1].tables) - 1)

\* trees that agree on everything but property f of the table at (s, t)
SameButTableField(A, B, s, t, f) ==
    /\ DOMAIN A = DOMAIN B
    /\ Len(A.schemas) = Len(B.schemas)
    /\ \A i \in 1..Len(A.schemas) :
          IF i = s + 1
          THEN /\ SameButProp(A.schemas[i], B.schemas[i], "tables")
               /\ DOMAIN A.schemas[i] = DOMAIN B.schemas[i]
               /\ Len(A.schemas[i].tables) = Len(B.schemas[i].tables)
               /\ \A j \in 1..Len(A.schemas[i].tables) :
                     IF j = t + 1
                     THEN /\ SameButProp(A.schemas[i].tables[j],
                                         B.schemas[i].tables[j], f)
                          /\ DOMAIN A.schemas[i].tables[j]
                                = DOMAIN B.schemas[i].tables[j]
                     ELSE A.schemas[i].tables[j] = B.schemas[i].tables[j]
          ELSE A.schemas[i] = B.schemas[i]

\* C11: setTableEnabled(T, i, j, e) with table j of schema i present changes
\* only the stored enabled flag of that table, which becomes e: the enabled
\* flag of schema i, every other table and every other schema are as in T,
\* whether schema i is enabled or not; under a disabled schema the table
\* stores e and its effective visibility is false.
C11_SetTableEnabledFrame ==
    (lastCall.op = "setTableEnabled"
     /\ TableResolves(lastCall.input, lastCall.schema_index, lastCall.table_index))
    => LET schema == lastCall.out.schemas[lastCall.schema_index + 1]
           table == schema.tables[lastCall.table_index + 1]
       IN  /\ ~lastCall.threw
           /\ SameButTableField(lastCall.input, lastCall.out,
                                lastCall.schema_index, lastCall.table_index,
                                "enabled")
           /\ table.enabled = lastCall.value
           /\ schema.enabled
                = lastCall.input.schemas[lastCall.schema_index + 1].enabled
           /\ ~schema.enabled => ~TableSwitchChecked(schema, table)

\* a disabled table under a disabled schema, with a sibling table, was enabled
C11_Witness ==
    /\ lastCall.op = "setTableEnabled"
    /\ TableResolves(lastCall.input, lastCall.schema_index, lastCall.table_index)
    /\ LET schema == lastCall.input.schemas[lastCall.schema_index + 1]
       IN  /\ ~schema.enabled
           /\ Len(schema.tables) > 1
           /\ ~schema.tables[lastCall.table_index + 1].enabled
    /\ lastCall.value = TRUE
    /\ lastCall.out # lastCall.input

\* the properties a table of the tree stores
TableProps == {"name", "enabled", "description", "columns"}

\* C12: in every state of the editor, for every table row shown, the checked
\* state of the table Switch and the highlighting of the table name equal
\* table.enabled AND schema.enabled, whatever the two stored flags are; the
\* tree stores the two flags only, never the visibility.
C12_EffectiveVisibility ==
    Mounted =>
        \A st \in TableRows :
            LET schema == SchemaOf(st[1])
                table == TableOf(st[1], st[2])
            IN  /\ TableSwitchChecked(schema, table)
                      = (table.enabled /\ schema.enabled)
                /\ TableNameHighlighted(schema, table)
                      = (table.enabled /\ schema.enabled)
                /\ DOMAIN table = TableProps
                /\ DOMAIN schema = {"name", "enabled", "tables"}

\* after a table toggle the editor shows an enabled table under a disabled
\* schema and a disabled table under an enabled schema, both not visible
C12_Witness ==
    /\ Mounted
    /\ lastCall.op = "setTableEnabled"
    /\ \E st \in TableRows :
          /\ ~SchemaOf(st[1]).enabled /\ TableOf(st[1], st[2]).enabled
          /\ ~TableSwitchChecked(SchemaOf(st[1]), TableOf(st[1], st[2]))
    /\ \E st \in TableRows :
          /\ SchemaOf(st[1]).enabled /\ ~TableOf(st[1], st[2]).enabled
          /\ ~TableSwitchChecked(SchemaOf(st[1]), TableOf(st[1], st[2]))

\* C13 (as claimed): setSchemaEnabled(i, false) followed by
\* setSchemaEnabled(i, true) leaves every table under schema i with the stored
\* enabled value it had before the two calls.
C13_TableFlagsSurviveCycle ==
    [][(/\ lastCall.op = "setSchemaEnabled"
        /\ lastCall.value = FALSE
        /\ lastCall.schema_index \in 0..(Len(lastCall.input.schemas) - 1)
        /\ lastCall'.op = "setSchemaEnabled"
        /\ lastCall'.value = TRUE
        /\ lastCall'.schema_index = lastCall.schema_index
        /\ lastCall'.input = lastCall.out)
       => LET before == lastCall.input.schemas[lastCall.schema_index + 1].tables
              after == lastCall'.out.schemas[lastCall.schema_index + 1].tables
          IN  /\ Len(after) = Len(before)
              /\ \A j \in 1..Len(before) : after[j].enabled = before[j].enabled]_vars

(***************************************************************************)
(* C14-C17: outcomes of an enrichment fetch                                *)
(***************************************************************************)
\* the pending flag of the path of the last resolution is stored and false
FlagCleared ==
    /\ lastCall.key \in DOMAIN MapOf(lastCall.kind)
    /\ MapOf(lastCall.kind)[lastCall.key] = FALSE

\* C14: a provider response that is not a well-formed sequence (no data, or
\* data that is no array) leaves the held tree, and so the targeted column
\* field, as it was before the resolution, and the pending flag of the path
\* is cleared.
C14_MalformedResponseIgnored ==
    (lastCall.op = "resolve"
     /\ lastCall.result[lastCall.kind] \in {NoData, NotArray})
    => /\ ~lastCall.wrote
       /\ FlagCleared
       /\ editFields.options = Some(lastCall.held)

\* a response without data arrived for a column whose relationship sequence
\* is not empty, and the sequence is still stored
C14_Witness ==
    /\ lastCall.op = "resolve"
    /\ lastCall.kind = "relationship"
    /\ lastCall.result[lastCall.kind] = NoData
    /\ ColumnResolves(Held, lastCall.schema_index, lastCall.table_index,
                      lastCall.column_index)
    /\ ColumnIn(Held, lastCall.schema_index, lastCall.table_index,
                lastCall.column_index).relationship # <<>>
    /\ FlagCleared

\* C15: a rejected provider call leaves the held tree exactly as it was
\* before the resolution, clears the pending flag of the path, and the
\* rejection reaches the caller of the fetch.
C15_RejectedFetchLeavesTree ==
    (lastCall.op = "resolve" /\ lastCall.result[lastCall.kind] = Rejected)
    => /\ editFields.options = Some(lastCall.held)
       /\ ~lastCall.wrote
       /\ FlagCleared
       /\ lastCall.threw

\* a possible-values call was rejected after the tree had been edited
C15_Witness ==
    /\ lastCall.op = "resolve"
    /\ lastCall.kind = "possible_values"
    /\ lastCall.result[lastCall.kind] = Rejected
    /\ lastCall.edited
    /\ unsavedChanges
    /\ FlagCleared

\* C16 (as claimed): a fetch that was the only one outstanding resolves with
\* a well-formed sequence and nothing else happened since it was issued: the
\* held tree is the tree held before with the targeted field of the column
\* equal to the returned sequence, and nothing else changed.
C16_FetchStoresSequence ==
    (lastCall.op = "resolve"
     /\ WellFormed(lastCall.result[lastCall.kind])
     /\ lastCall.alone
     /\ ~lastCall.edited
     /\ lastCall.input = lastCall.held)
    => Held = WithColumnField(lastCall.held, lastCall.schema_index,
                              lastCall.table_index, lastCall.column_index,
                              lastCall.kind, lastCall.result[lastCall.kind].data)

C18_DirtyUnlessNoOp ==
    [][(\/ nEdits' = nEdits + 1 /\ lastCall'.op \in MutationOps
        \/ \E id \in DOMAIN fetches :
              Pending(id) /\ fetches'[id].status = "done")
       => IF editFields'.options # editFields.options
          THEN unsavedChanges' = TRUE
          ELSE unsavedChanges' = unsavedChanges]_vars

\* C19 (as claimed): after a connection is loaded the held name, connection
\* string and tree are those of the loaded connection and the dirty flag is
\* false.
C19_LoadReplacesAndCleans ==
    lastCall.op = "load"
    => /\ editFields = [name |-> connection[1].name,
                        dsn |-> connection[1].dsn,
                        options |-> Some(connection[1].options)]
       /\ unsavedChanges = FALSE

\* C20: when the save request fails, the held name, connection string and
\* tree and the dirty flag are what they were before, the failure leaves the
\* route as it was (an editor that was shown is still shown) and Save can be
\* pressed again: the dirty flag is set and no save is pending.
C20_FailedSaveKeepsSession ==
    lastCall.op = "saveFailed"
    => /\ editFields = lastCall.editFields
       /\ unsavedChanges = lastCall.unsavedChanges
       /\ unsavedChanges
       /\ page.route = lastCall.route
       /\ ~page.isUpdatingConnection

\* the save of an edited tree of a loaded connection failed
C20_Witness ==
    /\ lastCall.op = "saveFailed"
    /\ connection # Undefined
    /\ editFields.options # Undefined
    /\ editFields.options # Some(connection[1].options)
    /\ unsavedChanges
    /\ Open

(***************************************************************************)
(* C21-C22: discard and delete                                             *)
(***************************************************************************)
\* the form shows the connection as last delivered by the server
ShowsPersisted ==
    connection # Undefined
    => editFields = [name |-> connection[1].name, dsn |-> connection[1].dsn,
                     options |-> Some(connection[1].options)]

\* C21 (as claimed): after a confirmed discard no edit made before it is
\* visible: the editor is either left, or it holds the last persisted
\* connection with the dirty flag false.
C21_DiscardRestoresPersisted ==
    lastCall.op = "discard"
    => \/ ~Open
       \/ ~unsavedChanges /\ ShowsPersisted

\* the number of conversations of this connection at the server
Dependents == Len(relatedConversationsOf(Some(ServerConversations)))

\* C22 (as claimed): while the connection has at least one dependent
\* conversation, a delete request is sent only by the confirmation of the
\* delete prompt, whether or not the conversation list has been delivered
\* when Delete is pressed.
C22_DeleteOnlyAfterConfirmation ==
    (lastCall.op \in {"pressDelete", "confirmDelete"}
     /\ lastCall.sent
     /\ Dependents >= 1)
    => lastCall.confirmed

(***************************************************************************)
(* C23-C25: shape of the tree, table description, pending maps             *)
(***************************************************************************)
\* the names of the schemas, tables and columns of a tree, in order
Shape(tree) ==
    [i \in 1..Len(tree.schemas) |->
        [name |-> tree.schemas[i].name,
         tables |->
            [j \in 1..Len(tree.schemas[i].tables) |->
                [name |-> tree.schemas[i].tables[j].name,
                 columns |->
                    [k \in 1..Len(tree.schemas[i].tables[j].columns) |->
                        tree.schemas[i].tables[j].columns[k].name]]]]]

\* the step is a field edit or toggle of the user, or the resolution of a fetch
MutationStep ==
    \/ nEdits' = nEdits + 1 /\ lastCall'.op \in MutationOps
    \/ \E id \in DOMAIN fetches : Pending(id) /\ fetches'[id].status = "done"

\* C23 (as claimed): no field edit, toggle or enrichment write changes the
\* number or the order (by name) of the schemas, of the tables of a schema or
\* of the columns of a table of the held tree.
C23_ShapePreserved ==
    [][MutationStep
       => Shape(editFields'.options[1]) = Shape(editFields.options[1])]_vars

\* C24: setTableDescription(T, i, j, v) raises no error; with table j of
\* schema i present the result differs from T only in the description of that
\* table, which is v; with an index out of range the result equals T.
C24_SetTableDescriptionFrame ==
    lastCall.op = "setTableDescription"
    => /\ ~lastCall.threw
       /\ IF TableResolves(lastCall.input, lastCall.schema_index,
                           lastCall.table_index)
          THEN /\ SameButTableField(lastCall.input, lastCall.out,
                                    lastCall.schema_index, lastCall.table_index,
                                    "description")
               /\ lastCall.out.schemas[lastCall.schema_index + 1]
                     .tables[lastCall.table_index + 1].description = lastCall.text
          ELSE lastCall.out = lastCall.input

\* the description of a table with a sibling table was changed
C24_Witness ==
    /\ lastCall.op = "setTableDescription"
    /\ TableResolves(lastCall.input, lastCall.schema_index, lastCall.table_index)
    /\ Len(lastCall.input.schemas[lastCall.schema_index + 1].tables) > 1
    /\ Len(lastCall.input.schemas) > 1
    /\ lastCall.out # lastCall.input

\* the flag of key in map: absent, false or true
FlagOf(map, key) == IF key \in DOMAIN map THEN Some(map[key]) ELSE Undefined

\* C25: the two pending maps are empty at the start, and a step changes the
\* flag of a path in the map of a kind only if it is the start or the end of
\* a fetch of that kind on that path: every other flag of both maps is as it
\* was.
C25_PendingMapsIndependent ==
    /\ loadingPossibleValuesMap = EmptyMap
    /\ loadingRelationshipsMap = EmptyMap
    /\ [][\A kind \in Kinds :
             \A key \in (DOMAIN MapOf(kind)) \cup (DOMAIN MapOf(kind)') :
                FlagOf(MapOf(kind)', key) # FlagOf(MapOf(kind), key)
                => /\ lastCall'.op \in {"issue", "resolve"}
                   /\ lastCall'.kind = kind
                   /\ lastCall'.key = key]_vars

\* a fetch was started while a fetch of the same kind on another path was
\* outstanding: both flags are set
C25_Witness ==
    /\ lastCall.op = "issue"
    /\ \E i \in DOMAIN fetches :
          /\ Pending(i)
          /\ fetches[i].kind = lastCall.kind
          /\ KeyOf(fetches[i]) # lastCall.key
          /\ IsLoading(MapOf(lastCall.kind), KeyOf(fetches[i]))
    /\ IsLoading(MapOf(lastCall.kind), lastCall.key)

(***************************************************************************)
(* C26-C30                                                                 *)
(***************************************************************************)
\* C26: the save request is started only by the Save action: a step that
\* starts it is no edit, toggle, fetch or resolution, leaves the form as it
\* is, is taken with the dirty flag set, and sends the held name and the
\* whole held tree.
C26_SaveOnlyOnSubmit ==
    [][(page'.isUpdatingConnection /\ ~page.isUpdatingConnection)
       => /\ lastCall'.op = "save"
          /\ nEdits' = nEdits /\ fetches' = fetches /\ nRefresh' = nRefresh
          /\ editFields' = editFields
          /\ unsavedChanges
          /\ "options" \in DOMAIN lastCall'.payload
          /\ lastCall'.payload.options = editFields.options
          /\ lastCall'.payload.name = editFields.name]_vars

\* an edited tree of a loaded connection was sent to the saver
C26_Witness ==
    /\ lastCall.op = "save"
    /\ page.isUpdatingConnection
    /\ connection # Undefined
    /\ editFields.options # Some(connection[1].options)
    /\ lastCall.payload.options = editFields.options

\* the text fields of a relationship entry
RelationshipTextProps == {"schema_name", "table", "column"}

\* C27 (as claimed): the schema_name, table and column of every relationship
\* of the held tree are plain strings, and after an edit through a
\* relationship text input the edited field is the string that was typed.
C27_RelationshipTextIsString ==
    editFields.options # Undefined
    => /\ ~HasEvent(Held)
       /\ (lastCall.op = "setColumnField"
           /\ lastCall.relation_index >= 0
           /\ lastCall.name \in RelationshipTextProps
           /\ ~lastCall.threw)
          => ColumnIn(Held, lastCall.schema_index, lastCall.table_index,
                      lastCall.column_index)
                .relationship[lastCall.relation_index + 1][lastCall.name]
                = Str(lastCall.value[lastCall.name].target.value)

\* C28 (as claimed): while a fetch of a kind on a path is outstanding, the
\* pending flag of that path in the map of that kind is true.
C28_FlagSetWhileOutstanding ==
    \A i \in DOMAIN fetches :
        Pending(i) => IsLoading(MapOf(fetches[i].kind), KeyOf(fetches[i]))

\* C29: no two possible-values fetches on one path are outstanding at the
\* same time, and a possible-values fetch is started on a path only when no
\* other one is outstanding there.
C29_OnePossibleValuesFetchPerPath ==
    \A a \in DOMAIN fetches, b \in DOMAIN fetches :
        (/\ Pending(a) /\ Pending(b)
         /\ fetches[a].kind = "possible_values"
         /\ fetches[b].kind = "possible_values"
         /\ KeyOf(fetches[a]) = KeyOf(fetches[b]))
        => a = b

\* a second possible-values fetch on a path is outstanding after the first
\* one on that path has resolved
C29_Witness ==
    /\ Len(fetches) = 2
    /\ fetches[1].kind = "possible_values" /\ fetches[1].status = "done"
    /\ fetches[2].kind = "possible_values" /\ Pending(2)
    /\ KeyOf(fetches[1]) = KeyOf(fetches[2])
    /\ IsLoading(loadingPossibleValuesMap, KeyOf(fetches[2]))

\* C30: setSchemaEnabled(T, i, e) raises no error and returns a tree that
\* differs from T at most in the enabled flag of schema i and in the enabled
\* flags of the tables of schema i: the other schemas, and the name,
\* description and columns of every table of schema i, are as in T.
C30_SetSchemaEnabledFrame ==
    lastCall.op = "setSchemaEnabled"
    => /\ ~lastCall.threw
       /\ DOMAIN lastCall.out = DOMAIN lastCall.input
       /\ Len(lastCall.out.schemas) = Len(lastCall.input.schemas)
       /\ \A i \in 1..Len(lastCall.input.schemas) :
             LET a == lastCall.input.schemas[i]
                 b == lastCall.out.schemas[i]
             IN  IF i = lastCall.schema_index + 1
                 THEN /\ DOMAIN a = DOMAIN b
                      /\ a.name = b.name
                      /\ Len(a.tables) = Len(b.tables)
                      /\ \A j \in 1..Len(a.tables) :
                            /\ SameButProp(a.tables[j], b.tables[j], "enabled")
                            /\ DOMAIN a.tables[j] = DOMAIN b.tables[j]
                 ELSE a = b

\* a schema of a tree with another schema was toggled, and one of its tables
\* has a column with possible values and one with relationships
C30_Witness ==
    /\ lastCall.op = "setSchemaEnabled"
    /\ Len(lastCall.input.schemas) > 1
    /\ lastCall.schema_index \in 0..(Len(lastCall.input.schemas) - 1)
    /\ lastCall.out # lastCall.input
    /\ \E j \in 1..Len(lastCall.input.schemas[lastCall.schema_index + 1].tables) :
          LET columns == lastCall.input.schemas[lastCall.schema_index + 1]
                            .tables[j].columns
          IN  /\ \E k \in 1..Len(columns) : columns[k].possible_values # <<>>
              /\ \E k \in 1..Len(columns) :
                    "relationship" \in DOMAIN columns[k]
                    /\ columns[k].relationship # <<>>

(***************************************************************************)
(* C31-C34: the dirty flag                                                 *)
(***************************************************************************)
\* C31: the dirty flag is false when the editor opens, and no step of the
\* editor (a load, a schema refresh, a failed or successful save, a closed
\* discard prompt, or any other) takes it from true to false.
C31_DirtyFlagMonotone ==
    /\ unsavedChanges = FALSE
    /\ [][unsavedChanges => unsavedChanges']_vars

\* the connection was delivered and the schema refreshed after an edit
C31_Witness ==
    /\ lastCall.op = "refresh"
    /\ connection # Undefined
    /\ nEdits > 0
    /\ unsavedChanges

\* C32 (as claimed): Save sends the save request exactly when the dirty flag
\* is true, leaves the editor without a request when it is false, and the
\* dirty flag is true whenever the held tree differs from the tree of the
\* connection as last loaded.
C32_SaveSendsEveryChange ==
    /\ lastCall.op = "save" => unsavedChanges /\ page.isUpdatingConnection
    /\ lastCall.op = "leave"
       => ~unsavedChanges /\ ~Open /\ ~page.isUpdatingConnection
    /\ (connection # Undefined
        /\ editFields.options # Some(connection[1].options))
       => unsavedChanges

\* C33: a back request made with the dirty flag set opens the discard prompt
\* and stays in the editor, one made with the flag clear leaves without a
\* prompt; closing the prompt without confirming keeps the form and the
\* dirty flag; the editor is left for the previous page only by the
\* confirmation of the open prompt.
C33_BackAsksWhenDirty ==
    /\ [](lastCall.op = "back"
          => IF lastCall.unsavedChanges
             THEN Open /\ page.showCancelAlert
             ELSE ~Open /\ ~page.showCancelAlert)
    /\ [](lastCall.op = "keep"
          => /\ editFields = lastCall.editFields
             /\ unsavedChanges = lastCall.unsavedChanges
             /\ Open /\ ~page.showCancelAlert)
    /\ [][(Open /\ unsavedChanges /\ ~Open')
          => lastCall'.op # "back"
             /\ (lastCall'.op = "discard" => page.showCancelAlert)]_vars

\* the prompt opened by a back request on an edited tree was closed without
\* confirming
C33_Witness ==
    /\ lastCall.op = "keep"
    /\ unsavedChanges
    /\ connection # Undefined
    /\ editFields.options # Some(connection[1].options)
    /\ Open

\* C34: the resolution of a fetch with a well-formed sequence leaves the
\* dirty flag true; the resolution of a failed fetch or of one with a
\* malformed response leaves the form and the dirty flag as they were.
C34_FetchDirtiesOnlyByWrite ==
    [][\A id \in DOMAIN fetches :
          (Pending(id) /\ fetches'[id].status = "done")
          => IF WellFormed(lastCall'.result[lastCall'.kind])
             THEN unsavedChanges'
             ELSE editFields' = editFields /\ unsavedChanges' = unsavedChanges]_vars

\* a well-formed answer was written into a tree that the user had not edited
C34_Witness ==
    /\ lastCall.op = "resolve"
    /\ lastCall.wrote
    /\ nEdits = 0
    /\ unsavedChanges

(***************************************************************************)
(* User administration: AdminSettings, UserList and the TextInput of a     *)
(* table cell.  The state is the one after the users and the connections   *)
(* have been fetched.  User indexes are the 0-based ones of users.map.     *)
(***************************************************************************)
\* {...obj, ...updates}
Spread(obj, updates) ==
    [k \in (DOMAIN obj) \cup (DOMAIN updates) |->
        IF k \in DOMAIN updates THEN updates[k] ELSE obj[k]]

\* Array.prototype.includes
includes(array, x) == \E k \in DOMAIN array : array[k] = x

\* Array.prototype.filter(id => id !== connId)
filterOut(array, connId) ==
    SelectSeq(array, LAMBDA id : id # connId)

\* user.config?.connections || []
existingConnections(user) ==
    IF user.config = Undefined THEN <<>> ELSE user.config[1].connections

\* {...user.config, connections: list}
configWith(user, list) ==
    SetProp(IF user.config = Undefined THEN EmptyMap ELSE user.config[1],
            "connections", list)

\* updateUser: the array that is passed to setUsers
updateUser(us, index, updates) ==
    [us EXCEPT ![index + 1] = Spread(@, updates)]

\* addConnectionToUser without the test for a present id
addConnectionToUserNoTest(us, userIndex, connId) ==
    LET user == us[userIndex + 1]
    IN  [called |-> TRUE,
         users |-> updateUser(us, userIndex,
                      [config |-> Some(configWith(user,
                          Append(existingConnections(user), connId)))])]

\* addConnectionToUser: `called` tells whether updateUser was called
addConnectionToUser(us, userIndex, connId) ==
    LET user == us[userIndex + 1]
    IN  IF ~includes(existingConnections(user), connId)
        THEN [called |-> TRUE,
              users |-> updateUser(us, userIndex,
                           [config |-> Some(configWith(user,
                               Append(existingConnections(user), connId)))])]
        ELSE [called |-> FALSE, users |-> us]

\* removeConnectionFromUser: updateUser is always called
removeConnectionFromUser(us, userIndex, connId) ==
    LET user == us[userIndex + 1]
    IN  [called |-> TRUE,
         users |-> updateUser(us, userIndex,
                      [config |-> Some(configWith(user,
                          filterOut(existingConnections(user), connId)))])]

\* ids of the connections of useGetConnections
ConnectionIds == {"c1", "c2"}

UserConfigs ==
    {Undefined, Some([connections |-> <<>>]), Some([connections |-> <<"c1">>]),
     Some([connections |-> <<"c2", "c1">>])}

\* answers of api.getAllUsers: no connection list holds an id twice
FetchedUsers ==
    {<<[id |-> "u1", name |-> "ann", email |-> "ann@x", role |-> "ADMIN",
        config |-> c1],
       [id |-> "u2", name |-> "bob", email |-> "", role |-> "USER",
        config |-> c2]>> :
        c1 \in UserConfigs, c2 \in {Undefined, Some([connections |-> <<"c2">>])}}

\* the TextInput cells of the table: row and field
InputKeys == {<<0, "name">>, <<1, "email">>}

TypedTexts == {"x", ""}

\* the value prop of a TextInput
ValueProp(us, key) == us[key[1] + 1][key[2]]

\* useState("") followed by the effect on [value]: if (value) setInputValue(value)
valueEffect(inputs, before, after) ==
    [key \in InputKeys |->
        IF ValueProp(after, key) # ValueProp(before, key) /\ ValueProp(after, key) # ""
        THEN ValueProp(after, key)
        ELSE inputs[key]]

\* a render of UserList passes a new onChange to every TextInput: useMemo
\* builds a new debounced function and the cleanup of the effect on
\* [debouncedChange] cancels the old one
cancelAll(pending) == [key \in DOMAIN pending |-> Undefined]

AdminInit ==
    /\ EditorInit
    /\ MessageClosed
    /\ \E fetched \in FetchedUsers :
          /\ users = fetched
          /\ textInputValue = [key \in InputKeys |-> ValueProp(fetched, key)]
    /\ adminUnsavedChanges = FALSE
    /\ debounced = [key \in InputKeys |-> Undefined]
    /\ bulkUpdates = <<>>
    /\ nKeys = 0
    /\ nAdminOps = 0
    /\ lastCall = NoCall

\* the events of the user in the table, all kinds together, are bounded
AdminBudget == nKeys + nAdminOps + Len(bulkUpdates) < MaxAdminEvents

\* setUsers(updatedUsers); setUnsavedChanges(true), and the render that follows
setUsers(updatedUsers) ==
    /\ users' = updatedUsers
    /\ adminUnsavedChanges' = TRUE
    /\ textInputValue' = valueEffect(textInputValue, users, updatedUsers)
    /\ debounced' = cancelAll(debounced)

\* onChangeHandler of TextInput: a keystroke
KeyStroke(key, text) ==
    /\ nKeys < MaxKeys /\ AdminBudget
    /\ textInputValue' = [textInputValue EXCEPT ![key] = text]
    /\ debounced' = [debounced EXCEPT ![key] = Some(Event(text))]
    /\ lastCall' = [op |-> "keystroke", key |-> key, text |-> text]
    /\ nKeys' = nKeys + 1
    /\ UNCHANGED <<editorVars, messageVars, users, adminUnsavedChanges, bulkUpdates,
                   nAdminOps>>

\* the timer of a debounced function expires: onChange(e) of the cell
Expire(key) ==
    /\ debounced[key] # Undefined
    /\ setUsers(updateUser(users, key[1],
                   [f \in {key[2]} |-> debounced[key][1].target.value]))
    /\ lastCall' = [op |-> "deliver", key |-> key,
                    text |-> debounced[key][1].target.value]
    /\ UNCHANGED <<editorVars, messageVars, nKeys, nAdminOps, bulkUpdates>>

\* onChange of the role select
RoleChange(userIndex, role) ==
    /\ nAdminOps < MaxAdminOps /\ AdminBudget
    /\ setUsers(updateUser(users, userIndex, [role |-> role]))
    /\ lastCall' = [op |-> "role", userIndex |-> userIndex]
    /\ nAdminOps' = nAdminOps + 1
    /\ UNCHANGED <<editorVars, messageVars, bulkUpdates, nKeys>>

\* addConnectionToUser called with any connection id
AddConnection(userIndex, connId) ==
    LET res == addConnectionToUser(users, userIndex, connId)
    IN  /\ nAdminOps < MaxAdminOps /\ AdminBudget
        /\ IF res.called THEN setUsers(res.users)
           ELSE UNCHANGED <<users, adminUnsavedChanges, textInputValue, debounced>>
        /\ lastCall' = [op |-> "addConnection", userIndex |-> userIndex,
                        id |-> connId, users |-> users,
                        flag |-> adminUnsavedChanges]
        /\ nAdminOps' = nAdminOps + 1
        /\ UNCHANGED <<editorVars, messageVars, bulkUpdates, nKeys>>

\* removeConnectionFromUser called with any connection id
RemoveConnection(userIndex, connId) ==
    LET res == removeConnectionFromUser(users, userIndex, connId)
    IN  /\ nAdminOps < MaxAdminOps /\ AdminBudget
        /\ IF res.called THEN setUsers(res.users)
           ELSE UNCHANGED <<users, adminUnsavedChanges, textInputValue, debounced>>
        /\ lastCall' = [op |-> "removeConnection", userIndex |-> userIndex,
                        id |-> connId, users |-> users,
                        flag |-> adminUnsavedChanges]
        /\ nAdminOps' = nAdminOps + 1
        /\ UNCHANGED <<editorVars, messageVars, bulkUpdates, nKeys>>

\* handleSaveChanges up to the await; the button is rendered only while
\* unsavedChanges is true
SaveChanges ==
    /\ adminUnsavedChanges
    /\ Len(bulkUpdates) < MaxBulk /\ AdminBudget
    /\ bulkUpdates' = Append(bulkUpdates, [users |-> users, status |-> "pending"])
    /\ lastCall' = [op |-> "saveChanges"]
    /\ UNCHANGED <<editorVars, messageVars, nKeys, nAdminOps, users, adminUnsavedChanges,
                   textInputValue, debounced>>

\* a catch clause that clears the flag
bulkUpdateRejectedClears(flag) == FALSE

\* catch (error) { console.error(...) }
bulkUpdateRejected(flag) == flag

\* api.bulkUpdateUsers resolved: setUnsavedChanges(false); a change of the
\* flag renders AdminSettings and with it UserList
BulkSucceeded(id) ==
    /\ id \in DOMAIN bulkUpdates
    /\ bulkUpdates[id].status = "pending"
    /\ bulkUpdates' = [bulkUpdates EXCEPT ![id].status = "resolved"]
    /\ adminUnsavedChanges' = FALSE
    /\ debounced' = IF adminUnsavedChanges THEN cancelAll(debounced) ELSE debounced
    /\ lastCall' = [op |-> "bulkResolved", id |-> id]
    /\ UNCHANGED <<editorVars, messageVars, nKeys, nAdminOps, users, textInputValue>>

\* api.bulkUpdateUsers rejected
BulkFailed(id) ==
    /\ id \in DOMAIN bulkUpdates
    /\ bulkUpdates[id].status = "pending"
    /\ bulkUpdates' = [bulkUpdates EXCEPT ![id].status = "rejected"]
    /\ adminUnsavedChanges' = bulkUpdateRejected(adminUnsavedChanges)
    /\ lastCall' = [op |-> "bulkRejected", id |-> id]
    /\ UNCHANGED <<editorVars, messageVars, nKeys, nAdminOps, users, textInputValue, debounced>>

AdminNext ==
    \/ \E key \in InputKeys, text \in TypedTexts : KeyStroke(key, text)
    \/ \E key \in InputKeys : Expire(key)
    \/ \E userIndex \in 0..(Len(users) - 1), role \in {"ADMIN", "USER"} :
          RoleChange(userIndex, role)
    \/ \E userIndex \in 0..(Len(users) - 1), id \in ConnectionIds :
          AddConnection(userIndex, id)
    \/ \E userIndex \in 0..(Len(users) - 1), id \in ConnectionIds :
          RemoveConnection(userIndex, id)
    \/ SaveChanges
    \/ \E id \in 1..MaxBulk : BulkSucceeded(id)
    \/ \E id \in 1..MaxBulk : BulkFailed(id)

AdminSpec == AdminInit /\ [][AdminNext]_vars

\* the timer of every pending debounced call expires
AdminFairSpec ==
    AdminSpec /\ \A key \in InputKeys : WF_vars(Expire(key))

(***************************************************************************)
(* C35-C37: user administration                                            *)
(***************************************************************************)
NoDuplicate(list) ==
    \A a \in DOMAIN list, b \in DOMAIN list : list[a] = list[b] => a = b

\* the fields of a user record other than config
UserFields == {"id", "name", "email", "role"}

\* C35: no connection list of a user holds an id twice; a call of
\* addConnectionToUser or removeConnectionFromUser changes the record of the
\* indexed user only, and there only the connection list; adding a present id
\* changes neither the users nor the unsaved flag, adding an absent id
\* appends it, and after a removal the id is not in the list while the other
\* ids are kept.
C35_ConnectionListsStayDistinct ==
    /\ \A i \in DOMAIN users : NoDuplicate(existingConnections(users[i]))
    /\ lastCall.op \in {"addConnection", "removeConnection"}
       => LET i == lastCall.userIndex + 1
              before == lastCall.users
              was == existingConnections(before[i])
              is == existingConnections(users[i])
          IN  /\ Len(users) = Len(before)
              /\ \A j \in DOMAIN users : j # i => users[j] = before[j]
              /\ \A f \in UserFields : users[i][f] = before[i][f]
              /\ IF lastCall.op = "addConnection"
                 THEN IF includes(was, lastCall.id)
                      THEN /\ users = before
                           /\ adminUnsavedChanges = lastCall.flag
                      ELSE /\ is = Append(was, lastCall.id)
                           /\ adminUnsavedChanges
                 ELSE /\ ~includes(is, lastCall.id)
                      /\ \A c \in ConnectionIds \ {lastCall.id} :
                            includes(is, c) <=> includes(was, c)
                      /\ Len(is) <= Len(was)

\* an id was added to a user who has it already, with no change pending
C35_Witness ==
    /\ lastCall.op = "addConnection"
    /\ includes(existingConnections(lastCall.users[lastCall.userIndex + 1]),
                lastCall.id)
    /\ Len(existingConnections(users[lastCall.userIndex + 1])) = 2
    /\ ~adminUnsavedChanges

C37_TypedTextDelivered ==
    \A key \in InputKeys, text \in TypedTexts :
        (debounced[key] = Some(Event(text)))
        ~> \/ ValueProp(users, key) = text
           \/ /\ debounced[key] # Undefined
              /\ debounced[key] # Some(Event(text))

(***************************************************************************)
(* The message input: ExpandingInput.  A text is the sequence of its       *)
(* characters; the empty string is the empty sequence.                     *)
(***************************************************************************)
\* \w of the regular expressions, on the characters that are used
WordChar(ch) == ch \in {"a", "A"}

\* String.prototype.toLowerCase
toLowerCase(text) == [i \in DOMAIN text |-> IF text[i] = "A" THEN "a" ELSE text[i]]

\* String.prototype.slice / substring with 0-based bounds
slice(text, from, to) == SubSeq(text, from + 1, to)

\* String.prototype.includes
includesText(text, query) ==
    \E i \in 1..(Len(text) - Len(query) + 1) :
        SubSeq(text, i, i + Len(query) - 1) = query

\* text.match(/(\w{3,})$/): the longest run of word characters at the end,
\* when it has three characters or more
matchTail(text) ==
    LET n == Len(text)
        run == CHOOSE k \in 0..n :
                  /\ \A j \in (n - k + 1)..n : WordChar(text[j])
                  /\ k = n \/ ~WordChar(text[n - k])
    IN  IF run >= 3 THEN Some(SubSeq(text, n - run + 1, n)) ELSE Undefined

\* the prop autoCompleteList: tag -> kinds of the tag
autoCompleteList ==
    (<<"a", "a">> :> <<"glossary">>) @@ (<<"a", "a", "a">> :> <<"uniqueKey">>)
        @@ (<<"a", "a", "a", "a">> :> <<"column">>)

\* Object.keys(autoCompleteList || {}), in insertion order
suggestions == << <<"a", "a">>, <<"a", "a", "a">>, <<"a", "a", "a", "a">> >>

\* suggestions.sort((a, b) => b.length - a.length): longer tags first, tags
\* of one length in their previous order
sortByLength(tags) ==
    LET rank(i) == Cardinality({j \in DOMAIN tags :
                        \/ Len(tags[j]) > Len(tags[i])
                        \/ Len(tags[j]) = Len(tags[i]) /\ j < i}) + 1
    IN  [r \in DOMAIN tags |-> tags[CHOOSE i \in DOMAIN tags : rank(i) = r]]

\* \b between the characters at positions i and i + 1 (1-based; 0 and
\* Len(text) are the ends of the text)
Boundary(text, i) ==
    LET left == i >= 1 /\ WordChar(text[i])
        right == i < Len(text) /\ WordChar(text[i + 1])
    IN  left # right

\* the regular expression \btag\b with the flag i matches at position i
MatchesAt(text, tag, i) ==
    /\ i + Len(tag) - 1 <= Len(text)
    /\ toLowerCase(SubSeq(text, i, i + Len(tag) - 1)) = toLowerCase(tag)
    /\ Boundary(text, i - 1)
    /\ Boundary(text, i + Len(tag) - 1)

RECURSIVE replaceFrom(_, _, _, _)
\* transformed.replace(tagRegex, replacement) with the flag g, from position i
replaceFrom(text, tag, replacement, i) ==
    IF i > Len(text) THEN <<>>
    ELSE IF MatchesAt(text, tag, i)
         THEN replacement \o replaceFrom(text, tag, replacement, i + Len(tag))
         ELSE <<text[i]>> \o replaceFrom(text, tag, replacement, i + 1)

\* one round of the loop over sortedTags
replaceTag(transformed, tag) ==
    LET tags == autoCompleteList[tag]
    IN  IF includes(tags, "uniqueKey")
        THEN replaceFrom(transformed, tag, <<"[">> \o tag \o <<"]">>, 1)
        ELSE IF includes(tags, "glossary")
             THEN replaceFrom(transformed, tag, <<"<">> \o tag \o <<">">>, 1)
             ELSE transformed

RECURSIVE replaceTags(_, _, _)
\* the loop over sortedTags, from its k-th tag
replaceTags(transformed, sortedTags, k) ==
    IF k > Len(sortedTags) THEN transformed
    ELSE replaceTags(replaceTag(transformed, sortedTags[k]), sortedTags, k + 1)

\* handleSubmit without the test of disabled and of the empty text
handleSubmitNoGuard(isDisabled, value, show) ==
    [called |-> TRUE,
     arg |-> replaceTags(value, sortByLength(suggestions), 1),
     inputValue |-> <<>>, showSuggestions |-> FALSE]

\* handleSubmit: `called` tells whether onSubmit was called, with `arg`
handleSubmit(isDisabled, value, show) ==
    IF isDisabled \/ Len(value) = 0
    THEN [called |-> FALSE, arg |-> <<>>, inputValue |-> value,
          showSuggestions |-> show]
    ELSE [called |-> TRUE,
          arg |-> replaceTags(value, sortByLength(suggestions), 1),
          inputValue |-> <<>>, showSuggestions |-> FALSE]

\* values of the textarea delivered to handleChange
MessageTexts ==
    {<<>>, <<" ">>, <<"a", "a">>, <<"A", "a", "a">>, <<"a", " ", "a", "a">>,
     <<"a", "a", " ", "a", "a", "a">>}

MessageInit ==
    /\ EditorInit
    /\ AdminClosed
    /\ inputValue = <<>>
    /\ showSuggestions = FALSE
    /\ filteredSuggestions = <<>>
    /\ disabled \in BOOLEAN
    /\ submitted = <<>>
    /\ nChanges = 0
    /\ lastCall = NoCall

\* handleChange with the new value and the position of the cursor
Change(value, cursorPos) ==
    LET match == matchTail(slice(value, 0, cursorPos))
        filtered == SelectSeq(suggestions,
                              LAMBDA s : includesText(toLowerCase(s),
                                                      toLowerCase(match[1])))
    IN  /\ nChanges < MaxChanges
        /\ nChanges' = nChanges + 1
        /\ inputValue' = value
        /\ IF match # Undefined
           THEN /\ filteredSuggestions' = filtered
                /\ showSuggestions' = (Len(filtered) > 0)
           ELSE /\ showSuggestions' = FALSE
                /\ UNCHANGED filteredSuggestions
        /\ lastCall' = [op |-> "change"]
        /\ UNCHANGED <<editorVars, adminVars, disabled, submitted>>

\* the step of a handleSubmit call made by the handler `by`: handleKeyPress,
\* or onClick of the send icon
Submitting(by) ==
    LET res == handleSubmit(disabled, inputValue, showSuggestions)
    IN  /\ Len(submitted) < MaxSubmits
        /\ submitted' = IF res.called THEN Append(submitted, res.arg) ELSE submitted
        /\ inputValue' = res.inputValue
        /\ showSuggestions' = res.showSuggestions
        /\ lastCall' = [op |-> "submit", by |-> by, disabled |-> disabled,
                        text |-> inputValue, show |-> showSuggestions,
                        submitted |-> submitted]
        /\ UNCHANGED <<editorVars, adminVars, disabled, filteredSuggestions,
                       nChanges>>

\* handleKeyPress: Enter without Shift submits, other keys do nothing here
KeyPress(key, shiftKey) ==
    IF key = "Enter" /\ ~shiftKey
    THEN Submitting("handleKeyPress")
    ELSE /\ lastCall' = [op |-> "key"]
         /\ UNCHANGED <<editorVars, adminVars, messageVars>>

\* insertSuggestionAtCaret with the selection of the textarea
insertSuggestionAtCaret(suggestion, start, end) ==
    LET textBefore == slice(inputValue, 0, start)
        textAfter == slice(inputValue, end, Len(inputValue))
        match == matchTail(textBefore)
        replaceStart == IF match # Undefined THEN start - Len(match[1]) ELSE start
    IN  /\ showSuggestions /\ Len(filteredSuggestions) > 0
        /\ includes(filteredSuggestions, suggestion)
        /\ inputValue' = slice(inputValue, 0, replaceStart) \o suggestion
                            \o <<" ">> \o textAfter
        /\ showSuggestions' = FALSE
        /\ lastCall' = [op |-> "insert"]
        /\ UNCHANGED <<editorVars, adminVars, disabled, filteredSuggestions,
                       submitted, nChanges>>

\* the parent passes another value of the prop disabled
SetDisabled(value) ==
    /\ nChanges < MaxChanges
    /\ disabled # value
    /\ nChanges' = nChanges + 1
    /\ disabled' = value
    /\ lastCall' = [op |-> "disabled"]
    /\ UNCHANGED <<editorVars, adminVars, inputValue, showSuggestions,
                   filteredSuggestions, submitted>>

MessageNext ==
    \/ \E value \in MessageTexts : \E cursorPos \in 0..Len(value) :
          Change(value, cursorPos)
    \/ \E key \in {"Enter", "a"}, shiftKey \in BOOLEAN : KeyPress(key, shiftKey)
    \/ Submitting("onClick")
    \/ \E k \in DOMAIN filteredSuggestions :
          \E start \in 0..Len(inputValue) : \E end \in start..Len(inputValue) :
              insertSuggestionAtCaret(filteredSuggestions[k], start, end)
    \/ \E value \in BOOLEAN : SetDisabled(value)

MessageSpec == MessageInit /\ [][MessageNext]_vars

\* C38: a handleSubmit call made while the input is disabled or its text is
\* empty calls onSubmit not at all and changes nothing; every other call
\* calls onSubmit exactly once, with a text that is not empty, and leaves the
\* input text empty and the suggestion list hidden.
C38_SubmitOnceWhenAccepted ==
    lastCall.op = "submit"
    => IF lastCall.disabled \/ lastCall.text = <<>>
       THEN /\ submitted = lastCall.submitted
            /\ inputValue = lastCall.text
            /\ showSuggestions = lastCall.show
       ELSE /\ Len(submitted) = Len(lastCall.submitted) + 1
            /\ SubSeq(submitted, 1, Len(lastCall.submitted)) = lastCall.submitted
            /\ submitted[Len(submitted)] # <<>>
            /\ inputValue = <<>>
            /\ ~showSuggestions

\* a text with a tag was submitted while the suggestion list was shown
C38_Witness ==
    /\ lastCall.op = "submit"
    /\ ~lastCall.disabled
    /\ lastCall.show
    /\ Len(submitted) = 1
    /\ submitted[1] = <<"[", "a", "a", "a", "]">>
    /\ inputValue = <<>>

====
